---- MODULE Spec2Model ----
(***************************************************************************)
(* A model of the verifiable keyword-index store: the Merkle-Patricia trie *)
(* engine (crates/storager/ads/src/mpt), the dynamic accumulator           *)
(* (crates/ads/src/crypto_accumulator) and the manager / storage-node      *)
(* query plane (crates/manager, crates/storager).                          *)
(*                                                                         *)
(* Conventions.  Option<T> is a sequence of length 0 (None) or 1 (Some).   *)
(* A Rust String / Vec<u8> that the code inspects byte by byte is a        *)
(* sequence of one-character strings; Str() flattens it to a TLA+ string   *)
(* when it is fed to a hasher.  SHA-256 is modelled as an injective        *)
(* function of the bytes fed to the hasher: Sha(x) = "[" x "]", so that    *)
(* two hashes are equal exactly when the hashed byte strings are equal.    *)
(***************************************************************************)
EXTENDS Integers, Sequences, FiniteSets, TLC

VARIABLES
    mpt,        \* the MPT under test: [root_hash, root]
    db,         \* the external KV database of the MPT: key -> serialized node
    last,       \* result of the last MPT operation
    mirror,     \* second MPT (restored copy, or the other arrival order)
    mdb,        \* database of the second MPT
    hist,       \* bookkeeping of the operations applied so far
    acc,        \* DynamicAccumulator: [acc_value, elements]
    accLast,    \* result of the last accumulator call
    stor,       \* storage nodes: node -> [ads, poisoned]
    roots,      \* Manager.root_hashes: node -> Option<RootHash>
    resp        \* last manager response

vars == <<mpt, db, last, mirror, mdb, hist, acc, accLast, stor, roots, resp>>

mptVars == <<mpt, db, last, mirror, mdb, hist>>
accVars == <<acc, accLast>>
mgrVars == <<stor, roots, resp>>

-----------------------------------------------------------------------------
(* Option, strings                                                         *)

None == <<>>
Some(x) == <<x>>
IsSome(o) == Len(o) = 1
IsNone(o) == Len(o) = 0
Get(o) == o[1]

RECURSIVE Str(_)
Str(s) == IF s = <<>> THEN "" ELSE Head(s) \o Str(Tail(s))

\* Option<Vec<u8>>::unwrap_or_default, then as text
StrOpt(o) == IF IsSome(o) THEN Str(Get(o)) ELSE ""

Nibbles == 0..15

HexChars == <<"0","1","2","3","4","5","6","7","8","9","a","b","c","d","e","f">>
DecStrs == <<"0","1","2","3","4","5","6","7","8","9","10","11","12","13","14","15">>

\* format!("{:x}", b) over a nibble path: the suffix string, one char per nibble
HexSuffix(path) == [i \in 1..Len(path) |-> HexChars[path[i] + 1]]

\* c.to_digit(16)
ToDigit(c) == CHOOSE n \in Nibbles : HexChars[n + 1] = c

\* suffix.chars().filter_map(|c| c.to_digit(16)).collect()
SuffixNibbles(suffix) == [i \in 1..Len(suffix) |-> ToDigit(suffix[i])]

\* format!("{}", key_path[pos]): the decimal text of a nibble
DecFmt(n) == DecStrs[n + 1]

byte_to_hex_index(b) == b % 16

key_to_hex_path(key) ==
    [i \in 1..(2 * Len(key)) |->
        IF i % 2 = 1 THEN (key[(i + 1) \div 2] \div 16) % 16
                     ELSE key[i \div 2] % 16]

RECURSIVE common_prefix_len(_, _)
common_prefix_len(v1, v2) ==
    IF v1 = <<>> \/ v2 = <<>> THEN 0
    ELSE IF Head(v1) = Head(v2) THEN 1 + common_prefix_len(Tail(v1), Tail(v2))
    ELSE 0

\* key_path[from..] with 0-based `from`
Drop(s, from) == SubSeq(s, from + 1, Len(s))
\* key_path[..to] with exclusive 0-based `to`
Take(s, to) == SubSeq(s, 1, to)

starts_with(s, p) == Len(p) <= Len(s) /\ Take(s, Len(p)) = p

-----------------------------------------------------------------------------
(* KVPair::add_value / del_value on comma-separated values                 *)

\* str::contains: pat occurs in s as a substring
Contains(s, pat) ==
    \E i \in 0..(Len(s) - Len(pat)) : SubSeq(s, i + 1, i + Len(pat)) = pat

\* str::split(','): the list of tokens ("" splits to [""])
RECURSIVE Split(_)
Split(s) ==
    IF \A i \in 1..Len(s) : s[i] /= ","
    THEN <<s>>
    ELSE LET i == CHOOSE j \in 1..Len(s) :
                      s[j] = "," /\ \A k \in 1..(j - 1) : s[k] /= ","
         IN <<Take(s, i - 1)>> \o Split(Drop(s, i))

RECURSIVE Join(_)
Join(toks) ==
    IF toks = <<>> THEN <<>>
    ELSE IF Len(toks) = 1 THEN toks[1]
    ELSE toks[1] \o <<",">> \o Join(Tail(toks))

\* returns [chg, value]
add_value(value, new_value) ==
    IF value = <<>> THEN [chg |-> TRUE, value |-> new_value]
    ELSE IF ~Contains(value, new_value)
         THEN [chg |-> TRUE, value |-> value \o <<",">> \o new_value]
    ELSE [chg |-> FALSE, value |-> value]

del_value(value, del) ==
    IF Contains(value, del)
    THEN [chg |-> TRUE,
          value |-> Join(SelectSeq(Split(value), LAMBDA t : t /= del))]
    ELSE [chg |-> FALSE, value |-> value]

\* String::trim().is_empty(): only whitespace
TrimIsEmpty(s) == \A i \in 1..Len(s) : s[i] = " "

-----------------------------------------------------------------------------
(* to_del_map: key -> (value -> count)                                     *)

EmptyMap == [x \in {} |-> 0]

DelCount(m, k, v) ==
    IF k \in DOMAIN m THEN (IF v \in DOMAIN m[k] THEN m[k][v] ELSE 0) ELSE 0

\* entry(k).or_insert_with(new).entry(v).and_modify(+1).or_insert(1)
DelInc(m, k, v) ==
    LET inner == IF k \in DOMAIN m THEN m[k] ELSE EmptyMap
        inner2 == [x \in DOMAIN inner \cup {v} |->
                      IF x = v THEN DelCount(m, k, v) + 1 ELSE inner[x]]
    IN [x \in DOMAIN m \cup {k} |-> IF x = k THEN inner2 ELSE m[x]]

\* count -= 1; remove the entry at 0; remove the inner map when empty
DelDec(m, k, v) ==
    LET inner == m[k]
        inner2 == IF inner[v] = 1
                  THEN [x \in DOMAIN inner \ {v} |-> inner[x]]
                  ELSE [inner EXCEPT ![v] = @ - 1]
    IN IF DOMAIN inner2 = {}
       THEN [x \in DOMAIN m \ {k} |-> m[x]]
       ELSE [m EXCEPT ![k] = inner2]

-----------------------------------------------------------------------------
(* Hashes and nodes                                                        *)

Sha(bytes) == "[" \o bytes \o "]"

\* [0u8; 32]
ZeroHash == "[Z]"

RECURSIVE CatSome(_, _)
\* the present children hashes, slot 0 first
CatSome(ch, i) ==
    IF i > 15 THEN ""
    ELSE (IF IsSome(ch[i]) THEN Get(ch[i]) ELSE "") \o CatSome(ch, i + 1)

NoChildren == [i \in Nibbles |-> None]

FullNode_hash(n) == Sha(CatSome(n.children_hash, 0) \o StrOpt(n.value))

FullNode_update_hash(n) == [n EXCEPT !.node_hash = FullNode_hash(n)]

ShortNode_hash(n) ==
    Sha(n.prefix \o Str(n.suffix)
        \o (IF n.is_leaf THEN StrOpt(n.value) ELSE n.next_node_hash))

ShortNode_update_hash(n) == [n EXCEPT !.node_hash = ShortNode_hash(n)]

\* serde_json of SerializableFullNode / SerializableShortNode
FullNode_serialize(n) ==
    [kind |-> "full", node_hash |-> n.node_hash,
     children_hash |-> n.children_hash, value |-> n.value,
     prefix |-> "", is_leaf |-> FALSE, suffix |-> <<>>,
     next_node_hash |-> ZeroHash]

ShortNode_serialize(n) ==
    [kind |-> "short", node_hash |-> n.node_hash,
     children_hash |-> NoChildren, value |-> n.value,
     prefix |-> n.prefix, is_leaf |-> n.is_leaf, suffix |-> n.suffix,
     next_node_hash |-> n.next_node_hash]

FullNode_deserialize(d) ==
    [node_hash |-> d.node_hash, children |-> NoChildren,
     children_hash |-> d.children_hash, value |-> d.value,
     is_dirty |-> FALSE, to_del_map |-> EmptyMap]

ShortNode_deserialize(d) ==
    [node_hash |-> d.node_hash, prefix |-> d.prefix, is_leaf |-> d.is_leaf,
     is_dirty |-> FALSE, suffix |-> d.suffix, next_node |-> None,
     next_node_hash |-> d.next_node_hash, value |-> d.value,
     to_del_map |-> EmptyMap]

\* Database::put / get on the in-memory map
DbPut(d, k, v) == [x \in DOMAIN d \cup {k} |-> IF x = k THEN v ELSE d[x]]
DbDelete(d, k) == [x \in DOMAIN d \ {k} |-> d[x]]

EmptyDb == [x \in {} |-> 0]

\* FullNode::new(Default::default(), value, db, None): [node, db]
FullNode_new(value, d) ==
    LET n == FullNode_update_hash(
                [node_hash |-> ZeroHash, children |-> NoChildren,
                 children_hash |-> NoChildren, value |-> value,
                 is_dirty |-> FALSE, to_del_map |-> EmptyMap])
    IN [node |-> n, db |-> DbPut(d, n.node_hash, FullNode_serialize(n))]

\* ShortNode::new(prefix, is_leaf, suffix, next_node, value, db, None)
ShortNode_new(prefix, is_leaf, suffix, next_node, value, d) ==
    LET n == ShortNode_update_hash(
                [node_hash |-> ZeroHash, prefix |-> prefix,
                 is_leaf |-> is_leaf, is_dirty |-> FALSE, suffix |-> suffix,
                 next_node |-> next_node,
                 next_node_hash |-> IF IsSome(next_node)
                                    THEN Get(next_node).node_hash
                                    ELSE ZeroHash,
                 value |-> value, to_del_map |-> EmptyMap])
    IN [node |-> n, db |-> DbPut(d, n.node_hash, ShortNode_serialize(n))]

\* children[i] = Some(child); children_hash[i] = Some(child.node_hash)
SetChild(n, i, child) ==
    [n EXCEPT !.children[i] = Some(child),
              !.children_hash[i] = Some(child.node_hash)]

-----------------------------------------------------------------------------
(* MPT::recursive_insert_full_node.  A result is                           *)
(*   [node: the FullNode after the call, db, old: old value text,          *)
(*    flag: second component of the Ok pair, st: "ok" | "err" | "panic"]   *)

Res(node, d, old, flag) ==
    [node |-> node, db |-> d, old |-> old, flag |-> flag, st |-> "ok"]

Fail(node, d, st) ==
    [node |-> node, db |-> d, old |-> <<>>, flag |-> FALSE, st |-> st]

\* final_value.is_empty() || from_utf8_lossy(final_value).trim().is_empty()
NeedDelete(v) == v = <<>> \/ TrimIsEmpty(v)

\* parent_guard.children_hash[index] = child hash; is_dirty; update_hash
TouchParent(fn, index, h) ==
    FullNode_update_hash(
        [fn EXCEPT !.children_hash[index] = Some(h), !.is_dirty = TRUE])

\* parent_guard.children[index] = Some(node); children_hash; is_dirty; update_hash
ReplaceChild(fn, index, node) ==
    FullNode_update_hash(
        [fn EXCEPT !.children[index] = Some(node),
                   !.children_hash[index] = Some(node.node_hash),
                   !.is_dirty = TRUE])

\* key ends at this branch (pos >= key_path.len()): mpt.rs 249-326
InsertAtBranch(fn, kp, value, d, prim, flag) ==
    LET old == IF IsSome(fn.value) THEN Get(fn.value) ELSE <<>>
        store(v) == [fn EXCEPT !.value = Some(v), !.is_dirty = TRUE]
    IN IF prim THEN Res(store(value), d, old, old /= value)
       ELSE IF flag
       THEN LET r == del_value(old, value)
            IN IF r.chg
               THEN Res(store(r.value), d, <<>>, NeedDelete(r.value))
               ELSE Res([fn EXCEPT !.to_del_map = DelInc(@, kp, value)],
                        d, <<>>, FALSE)
       ELSE IF DelCount(fn.to_del_map, kp, value) > 0
       THEN Res([fn EXCEPT !.to_del_map = DelDec(@, kp, value)], d, <<>>, FALSE)
       ELSE LET r == add_value(old, value)
            IN IF r.chg
               THEN Res(store(r.value), d, <<>>, NeedDelete(r.value))
               ELSE Res(fn, d, <<>>, FALSE)

\* children[index].is_none(): mpt.rs 332-431
InsertEmptySlot(fn, kp, pos, index, value, d, prim, flag) ==
    IF ~prim /\ flag
    THEN Res([fn EXCEPT !.to_del_map = DelInc(@, kp, value)], d, <<>>, FALSE)
    ELSE IF ~prim /\ DelCount(fn.to_del_map, kp, value) > 0
    THEN Res([fn EXCEPT !.to_del_map = DelDec(@, kp, value)], d, <<>>, FALSE)
    ELSE
      LET mk == ShortNode_new(DecFmt(kp[pos + 1]), TRUE,
                              HexSuffix(Drop(kp, pos + 1)), None,
                              Some(value), d)
          leaf_prefix == Take(kp, pos + 1)
          moved == {k \in DOMAIN fn.to_del_map : starts_with(k, leaf_prefix)}
          leaf == [mk.node EXCEPT
                     !.to_del_map = [k \in moved |-> fn.to_del_map[k]]]
          kept == [k \in DOMAIN fn.to_del_map \ moved |-> fn.to_del_map[k]]
          parent == FullNode_update_hash(
                      [fn EXCEPT !.to_del_map = kept,
                                 !.children[index] = Some(leaf),
                                 !.children_hash[index] = Some(leaf.node_hash),
                                 !.is_dirty = TRUE])
      IN Res(parent, mk.db, <<>>, FALSE)

\* leaf whose suffix equals the rest of the key: mpt.rs 452-551
InsertLeafMatch(fn, kp, index, child, value, d, prim, flag) ==
    LET old == IF IsSome(child.value) THEN Get(child.value) ELSE <<>>
        \* in-place change of the shared child, parent untouched
        inplace(c) == [fn EXCEPT !.children[index] = Some(c)]
        store(v, o, f) ==
            LET c == ShortNode_update_hash(
                        [child EXCEPT !.value = Some(v), !.is_dirty = TRUE])
            IN Res(TouchParent(inplace(c), index, c.node_hash), d, o, f)
    IN IF prim THEN store(value, old, old /= value)
       ELSE IF flag
       THEN LET r == del_value(old, value)
            IN IF r.chg THEN store(r.value, <<>>, NeedDelete(r.value))
               ELSE Res(inplace([child EXCEPT
                                   !.to_del_map = DelInc(@, kp, value)]),
                        d, <<>>, FALSE)
       ELSE IF DelCount(child.to_del_map, kp, value) > 0
       THEN Res(inplace([child EXCEPT !.to_del_map = DelDec(@, kp, value)]),
                d, <<>>, FALSE)
       ELSE LET r == add_value(old, value)
            IN IF r.chg THEN store(r.value, <<>>, NeedDelete(r.value))
               ELSE Res(fn, d, <<>>, FALSE)

\* one key's tail below a fresh branch: a leaf in slot tail[0] holding the
\* rest of the tail.  [node: branch, db]
PlaceLeaf(branch, tail, data, d) ==
    LET mk == ShortNode_new("", TRUE, HexSuffix(Drop(tail, 1)), None, data, d)
    IN [node |-> SetChild(branch, byte_to_hex_index(tail[1]), mk.node),
        db |-> mk.db]

\* tail empty: the value goes into the branch itself
PlaceTail(branch, tail, data, d) ==
    IF tail = <<>> THEN [node |-> [branch EXCEPT !.value = data], db |-> d]
    ELSE PlaceLeaf(branch, tail, data, d)

\* leaf whose suffix differs from the rest of the key: mpt.rs 552-863
InsertLeafSplit(fn, kp, pos, index, child, value, d, prim, flag) ==
    LET cur == Drop(kp, pos + 1)
        stored == SuffixNibbles(child.suffix)
        old_value == IF IsSome(child.value) THEN Get(child.value) ELSE <<>>
        had_old_value == old_value /= <<>>
        common_len == common_prefix_len(cur, stored)
        b0 == FullNode_new(None, d)
    IN IF ~prim /\ flag
       THEN Res([fn EXCEPT !.children[index] =
                    Some([child EXCEPT !.to_del_map = DelInc(@, kp, value)])],
                d, <<>>, FALSE)
       ELSE IF common_len = 0
       THEN LET b1 == PlaceTail(b0.node, stored, child.value, b0.db)
            IN IF cur = <<>>
               \* current_key_suffix[0] on an empty vector
               THEN Fail(fn, b1.db, "panic")
               ELSE LET b2 == PlaceLeaf(b1.node, cur, Some(value), b1.db)
                        ext == ShortNode_new("", FALSE, <<>>,
                                   Some(FullNode_update_hash(b2.node)),
                                   None, b2.db)
                    IN Res(ReplaceChild(fn, index, ext.node), ext.db,
                           old_value, had_old_value)
       ELSE LET b1 == PlaceTail(b0.node, Drop(stored, common_len),
                                child.value, b0.db)
                b2 == PlaceTail(b1.node, Drop(cur, common_len),
                                Some(value), b1.db)
                ext == ShortNode_new("", FALSE,
                           HexSuffix(Take(stored, common_len)),
                           Some(FullNode_update_hash(b2.node)), None, b2.db)
            IN Res(ReplaceChild(fn, index, ext.node), ext.db,
                   old_value, had_old_value)

RECURSIVE recursive_insert_full_node(_, _, _, _, _, _, _)

\* the extension's suffix is a prefix of the rest of the key: mpt.rs 886-923
InsertExtDescend(fn, kp, pos, index, child, value, d, prim, flag) ==
    LET r == recursive_insert_full_node(Get(child.next_node), kp,
                 pos + 1 + Len(child.suffix), value, d, prim, flag)
        linked == [child EXCEPT !.next_node = Some(r.node)]
        ext == ShortNode_update_hash(
                  [linked EXCEPT !.next_node_hash = r.node.node_hash,
                                 !.is_dirty = TRUE])
    IN IF r.st /= "ok" THEN Fail(fn, r.db, r.st)
       ELSE IF child.next_node_hash /= r.node.node_hash
       THEN [r EXCEPT !.node =
                TouchParent([fn EXCEPT !.children[index] = Some(ext)],
                            index, ext.node_hash)]
       ELSE [r EXCEPT !.node = [fn EXCEPT !.children[index] = Some(linked)]]

\* the key ends inside the extension's suffix: mpt.rs 924-992
InsertExtContained(fn, index, child, ext_suffix, common_len, value, d) ==
    LET ext == ShortNode_update_hash(
                  [child EXCEPT
                     !.suffix = HexSuffix(Drop(ext_suffix, common_len + 1)),
                     !.is_dirty = TRUE])
        b0 == FullNode_new(Some(value), d)
        branch == FullNode_update_hash(
                    SetChild(b0.node,
                             byte_to_hex_index(ext_suffix[common_len + 1]),
                             ext))
        new_extension == ShortNode_new("", FALSE,
                            HexSuffix(Take(ext_suffix, common_len)),
                            Some(branch), None, b0.db)
    IN IF common_len > 0
       THEN Res(ReplaceChild(fn, index, new_extension.node),
                new_extension.db, <<>>, FALSE)
       \* only children_hash[index] is replaced; children[index] stays the
       \* (shortened) extension
       ELSE Res(TouchParent([fn EXCEPT !.children[index] = Some(ext)],
                            index, branch.node_hash),
                b0.db, <<>>, FALSE)

\* the key leaves the extension's suffix part-way: mpt.rs 993-1105
InsertExtSplit(fn, index, child, ext_suffix, cur, common_len, value, d) ==
    LET ext == ShortNode_update_hash(
                  [child EXCEPT
                     !.suffix = HexSuffix(Drop(ext_suffix, common_len + 1)),
                     !.is_dirty = TRUE])
        new_leaf == ShortNode_new("", TRUE,
                        HexSuffix(Drop(cur, common_len + 1)), None,
                        Some(value), d)
        b0 == FullNode_new(None, new_leaf.db)
        branch == FullNode_update_hash(
                    SetChild(SetChild(b0.node,
                                 byte_to_hex_index(ext_suffix[common_len + 1]),
                                 ext),
                             byte_to_hex_index(cur[common_len + 1]),
                             new_leaf.node))
        wrapper == ShortNode_new("", FALSE,
                       HexSuffix(Take(ext_suffix, common_len)),
                       Some(branch), None, b0.db)
    IN Res(ReplaceChild(fn, index, wrapper.node), wrapper.db, <<>>, FALSE)

\* child is an extension node: mpt.rs 864-1109
InsertExt(fn, kp, pos, index, child, value, d, prim, flag) ==
    LET ext_suffix == SuffixNibbles(child.suffix)
        cur == Drop(kp, pos + 1)
        common_len == common_prefix_len(ext_suffix, cur)
    IN IF IsNone(child.next_node) THEN Fail(fn, d, "err")
       ELSE IF common_len = Len(ext_suffix)
       THEN InsertExtDescend(fn, kp, pos, index, child, value, d, prim, flag)
       ELSE IF common_len = Len(cur)
       THEN InsertExtContained(fn, index, child, ext_suffix, common_len,
                               value, d)
       ELSE InsertExtSplit(fn, index, child, ext_suffix, cur, common_len,
                           value, d)

recursive_insert_full_node(fn, kp, pos, value, d, prim, flag) ==
    IF pos >= Len(kp) THEN InsertAtBranch(fn, kp, value, d, prim, flag)
    ELSE
      LET index == byte_to_hex_index(kp[pos + 1])
      IN IF IsNone(fn.children[index])
         THEN InsertEmptySlot(fn, kp, pos, index, value, d, prim, flag)
         ELSE
           LET child == Get(fn.children[index])
           IN IF child.is_leaf
              THEN IF SuffixNibbles(child.suffix) = Drop(kp, pos + 1)
                   THEN InsertLeafMatch(fn, kp, index, child, value, d,
                                        prim, flag)
                   ELSE InsertLeafSplit(fn, kp, pos, index, child, value, d,
                                        prim, flag)
              ELSE InsertExt(fn, kp, pos, index, child, value, d, prim, flag)

\* MPT::new
MPT_new == [root_hash |-> ZeroHash, root |-> None]

\* MPT::ensure_root: [mpt, db]; a missing in-memory root is created empty
ensure_root(m, d) ==
    IF IsSome(m.root) THEN [mpt |-> m, db |-> d]
    ELSE LET mk == FullNode_new(None, d)
         IN [mpt |-> [m EXCEPT !.root = Some(mk.node)], db |-> mk.db]

\* MPT::insert: [mpt, db, old, flag, st]
MPT_insert(m, d, key, value, prim, flag) ==
    LET key_path == key_to_hex_path(key)
        e == ensure_root(m, d)
        r == recursive_insert_full_node(Get(e.mpt.root), key_path, 0, value,
                                        e.db, prim, flag)
    IN IF r.st = "ok"
       \* update_root_hash
       THEN [mpt |-> [root_hash |-> r.node.node_hash, root |-> Some(r.node)],
             db |-> r.db, old |-> r.old, flag |-> r.flag, st |-> "ok"]
       ELSE [mpt |-> e.mpt, db |-> r.db, old |-> <<>>, flag |-> FALSE,
             st |-> r.st]

-----------------------------------------------------------------------------
(* Queries and proofs.  An empty Vec<u8> hash in a proof is "".            *)

NoHashes == [i \in Nibbles |-> ""]

ProofElement(level, proof_type, prefix, suffix, value, next_node_hash, children_hashes) ==
    [level |-> level, proof_type |-> proof_type, prefix |-> prefix,
     suffix |-> suffix, value |-> value, next_node_hash |-> next_node_hash,
     children_hashes |-> children_hashes]

MPTProof(is_exist, levels, proofs) ==
    [is_exist |-> is_exist, levels |-> levels, proofs |-> proofs]

\* [value, proof, node: the FullNode with lazily loaded children, st]
QRes(value, proof, node) ==
    [value |-> value, proof |-> proof, node |-> node, st |-> "ok"]

QErr(node) ==
    [value |-> <<>>, proof |-> MPTProof(FALSE, 0, <<>>), node |-> node,
     st |-> "err"]

\* db.get(hash) then {Short,Full}Node::deserialize: [found, ok, node]
LoadNode(d, h, kind) ==
    IF h \notin DOMAIN d THEN [found |-> FALSE, ok |-> TRUE]
    ELSE IF d[h].kind /= kind THEN [found |-> TRUE, ok |-> FALSE]
    ELSE [found |-> TRUE, ok |-> TRUE,
          node |-> IF kind = "short" THEN ShortNode_deserialize(d[h])
                   ELSE FullNode_deserialize(d[h])]

RECURSIVE recursive_query_full_node(_, _, _, _, _)
recursive_query_full_node(fn, kp, pos, level, d) ==
    LET proof_element ==
            ProofElement(level, 2, "", <<>>,
                IF IsSome(fn.value) THEN Get(fn.value) ELSE <<>>, "",
                [i \in Nibbles |-> IF IsSome(fn.children_hash[i])
                                   THEN Get(fn.children_hash[i]) ELSE ""])
        absent(node) == QRes(<<>>, MPTProof(FALSE, level, <<proof_element>>),
                             node)
    IN
    IF pos >= Len(kp)
    THEN IF IsSome(fn.value)
         THEN QRes(Get(fn.value), MPTProof(TRUE, level, <<proof_element>>), fn)
         ELSE absent(fn)
    ELSE
    LET index == byte_to_hex_index(kp[pos + 1])
        inmem == IsSome(fn.children[index])
        ld == IF ~inmem /\ IsSome(fn.children_hash[index])
              THEN LoadNode(d, Get(fn.children_hash[index]), "short")
              ELSE [found |-> FALSE, ok |-> TRUE]
    IN
    IF ~inmem /\ ~ld.ok THEN QErr(fn)
    ELSE IF ~inmem /\ ~ld.found THEN absent(fn)
    ELSE
    LET child == IF inmem THEN Get(fn.children[index]) ELSE ld.node
        fn1 == [fn EXCEPT !.children[index] = Some(child)]
        cur == Drop(kp, pos + 1)
        stored == SuffixNibbles(child.suffix)
        leaf_proof ==
            ProofElement(level + 1, 0, child.prefix, child.suffix,
                IF IsSome(child.value) THEN Get(child.value) ELSE <<>>,
                "", NoHashes)
    IN
    IF child.is_leaf
    THEN IF cur = stored /\ IsSome(child.value)
         THEN QRes(Get(child.value),
                   MPTProof(TRUE, level + 1, <<leaf_proof, proof_element>>),
                   fn1)
         ELSE QRes(<<>>,
                   MPTProof(FALSE, level + 1, <<leaf_proof, proof_element>>),
                   fn1)
    ELSE
    LET hasnext == IsSome(child.next_node)
        nl == IF ~hasnext /\ child.next_node_hash /= ZeroHash
              THEN LoadNode(d, child.next_node_hash, "full")
              ELSE [found |-> FALSE, ok |-> TRUE]
    IN
    IF ~hasnext /\ ~nl.ok THEN QErr(fn1)
    ELSE IF ~hasnext /\ ~nl.found THEN absent(fn1)
    ELSE
    LET next == IF hasnext THEN Get(child.next_node) ELSE nl.node
        relink(nx) == [fn1 EXCEPT !.children[index] =
                          Some([child EXCEPT !.next_node = Some(nx)])]
        ext_proof == ProofElement(level + 1, 1, child.prefix, child.suffix,
                                  <<>>, child.next_node_hash, NoHashes)
        sub == recursive_query_full_node(next, kp, pos + 1 + Len(stored),
                                         level + 2, d)
    IN
    IF Len(cur) >= Len(stored) /\ Take(cur, Len(stored)) = stored
    THEN IF sub.st /= "ok" THEN QErr(relink(sub.node))
         ELSE QRes(sub.value,
                   MPTProof(sub.proof.is_exist, sub.proof.levels,
                            sub.proof.proofs \o <<ext_proof, proof_element>>),
                   relink(sub.node))
    ELSE absent(relink(next))

\* MPT::get_root: [mpt, found, st]; a root known only by its hash is loaded
\* from the database
get_root(m, d) ==
    LET ld == LoadNode(d, m.root_hash, "full")
    IN IF IsSome(m.root) THEN [mpt |-> m, found |-> TRUE, st |-> "ok"]
       ELSE IF m.root_hash = ZeroHash \/ ~ld.found
       THEN [mpt |-> m, found |-> FALSE, st |-> "ok"]
       ELSE IF ~ld.ok THEN [mpt |-> m, found |-> FALSE, st |-> "err"]
       ELSE [mpt |-> [m EXCEPT !.root = Some(ld.node)], found |-> TRUE,
             st |-> "ok"]

\* MPT::query_by_key: [value, proof, mpt, st]
query_by_key(m, d, key) ==
    LET g == get_root(m, d)
        r == recursive_query_full_node(Get(g.mpt.root), key_to_hex_path(key),
                                       0, 0, d)
    IN IF g.st /= "ok"
       THEN [value |-> <<>>, proof |-> MPTProof(FALSE, 0, <<>>), mpt |-> m,
             st |-> "err"]
       ELSE IF g.found
       THEN [value |-> r.value, proof |-> r.proof,
             mpt |-> [g.mpt EXCEPT !.root = Some(r.node)], st |-> r.st]
       ELSE [value |-> <<>>,
             proof |-> MPTProof(FALSE, 0,
                          <<ProofElement(0, 2, "", <<>>, <<>>, "", NoHashes)>>),
             mpt |-> m, st |-> "ok"]

RECURSIVE CatAll(_, _)
CatAll(hs, i) == IF i > 15 THEN "" ELSE hs[i] \o CatAll(hs, i + 1)

\* the value copied into a zeroed 32-byte buffer
PadValue(value) == IF value = <<>> THEN ZeroHash ELSE "v:" \o Str(value)

\* one round of the loop of compute_mpt_root; "bad" stands for the early
\* return of the zero hash
ProofStep(h, proof, value, mpt_proof) ==
    IF h = "bad" THEN "bad"
    ELSE IF proof.proof_type = 0
    THEN Sha(proof.prefix \o Str(proof.suffix)
             \o (IF mpt_proof.is_exist THEN Str(value) ELSE Str(proof.value)))
    ELSE IF proof.proof_type = 1
    THEN IF proof.level /= mpt_proof.levels /\ proof.next_node_hash /= ""
            /\ proof.next_node_hash /= h
         THEN "bad"
         ELSE Sha(proof.prefix \o Str(proof.suffix) \o proof.next_node_hash)
    ELSE IF proof.level /= mpt_proof.levels
            /\ ~\E i \in Nibbles : proof.children_hashes[i] /= ""
                                   /\ proof.children_hashes[i] = h
         THEN "bad"
         ELSE Sha(CatAll(proof.children_hashes, 0) \o Str(proof.value))

RECURSIVE ProofFold(_, _, _, _)
ProofFold(h, i, value, mpt_proof) ==
    IF i > Len(mpt_proof.proofs) THEN h
    ELSE ProofFold(ProofStep(h, mpt_proof.proofs[i], value, mpt_proof),
                   i + 1, value, mpt_proof)

compute_mpt_root(value, mpt_proof) ==
    LET h == ProofFold(PadValue(value), 1, value, mpt_proof)
    IN IF h = "bad" THEN ZeroHash ELSE h

verify_query_result(m, value, mpt_proof) ==
    compute_mpt_root(value, mpt_proof) = m.root_hash

-----------------------------------------------------------------------------
(* Deletion, batch_fix, persistence                                        *)

RECURSIVE recursive_delete_full_node(_, _, _)
\* [node, deleted: Option<value>]
recursive_delete_short_node(sn, kp, pos) ==
    LET remaining == Drop(kp, pos)
        stored == SuffixNibbles(sn.suffix)
        sub == recursive_delete_full_node(Get(sn.next_node), kp,
                                          pos + Len(stored))
        next == sub.node
        should_remove_next ==
            IsNone(next.value) /\ \A i \in Nibbles : IsNone(next.children[i])
    IN IF sn.is_leaf
       THEN IF remaining = stored /\ IsSome(sn.value)
            THEN [node |-> ShortNode_update_hash([sn EXCEPT !.value = None]),
                  deleted |-> sn.value]
            ELSE [node |-> sn, deleted |-> None]
       ELSE IF Len(remaining) >= Len(stored)
               /\ Take(remaining, Len(stored)) = stored
               /\ IsSome(sn.next_node)
       THEN IF IsSome(sub.deleted) /\ should_remove_next
            THEN [node |-> ShortNode_update_hash(
                              [sn EXCEPT !.next_node = None,
                                         !.next_node_hash = ZeroHash]),
                  deleted |-> sub.deleted]
            ELSE [node |-> [sn EXCEPT !.next_node = Some(next)],
                  deleted |-> sub.deleted]
       ELSE [node |-> sn, deleted |-> None]

recursive_delete_full_node(fn, kp, pos) ==
    IF pos >= Len(kp)
    THEN IF IsSome(fn.value)
         THEN [node |-> FullNode_update_hash([fn EXCEPT !.value = None]),
               deleted |-> fn.value]
         ELSE [node |-> fn, deleted |-> None]
    ELSE
      LET index == kp[pos + 1]
          sub == recursive_delete_short_node(Get(fn.children[index]), kp,
                                             pos + 1)
          child == sub.node
          should_remove_child ==
              \/ child.is_leaf /\ IsNone(child.value)
              \/ ~child.is_leaf /\ IsNone(child.next_node)
      IN IF IsNone(fn.children[index]) THEN [node |-> fn, deleted |-> None]
         ELSE IF IsSome(sub.deleted) /\ should_remove_child
         THEN [node |-> FullNode_update_hash(
                           [fn EXCEPT !.children[index] = None,
                                      !.children_hash[index] = None]),
               deleted |-> sub.deleted]
         ELSE [node |-> [fn EXCEPT !.children[index] = Some(child)],
               deleted |-> sub.deleted]

\* MPT::delete with cleanup_root_if_needed / update_root_hash:
\* [mpt, deleted]
MPT_delete(m, key) ==
    LET r == recursive_delete_full_node(Get(m.root), key_to_hex_path(key), 0)
        root == r.node
        should_remove_root ==
            IsNone(root.value) /\ \A i \in Nibbles : IsNone(root.children[i])
    IN IF IsNone(m.root) THEN [mpt |-> m, deleted |-> None]
       ELSE IF IsNone(r.deleted)
       THEN [mpt |-> [m EXCEPT !.root = Some(root)], deleted |-> None]
       ELSE IF should_remove_root
       THEN [mpt |-> [root_hash |-> ZeroHash, root |-> None],
             deleted |-> r.deleted]
       ELSE [mpt |-> [root_hash |-> root.node_hash, root |-> Some(root)],
             deleted |-> r.deleted]

RECURSIVE full_node_batch_fix_no_db(_)
short_node_batch_fix_no_db(sn) ==
    LET next == full_node_batch_fix_no_db(Get(sn.next_node))
        linked == IF IsSome(sn.next_node) /\ Get(sn.next_node).is_dirty
                  THEN [sn EXCEPT !.next_node = Some(next),
                                  !.next_node_hash = next.node_hash]
                  ELSE sn
    IN IF ~sn.is_dirty THEN sn
       ELSE ShortNode_update_hash([linked EXCEPT !.is_dirty = FALSE])

\* the node with its dirty in-memory children fixed and their hashes copied
FixDirtyChildren(fn) ==
    LET dirty(i) == IsSome(fn.children[i]) /\ Get(fn.children[i]).is_dirty
        fixed == [i \in Nibbles |->
                    IF dirty(i)
                    THEN Some(short_node_batch_fix_no_db(Get(fn.children[i])))
                    ELSE fn.children[i]]
    IN [fn EXCEPT !.children = fixed,
                  !.children_hash =
                      [i \in Nibbles |->
                          IF dirty(i) THEN Some(Get(fixed[i]).node_hash)
                          ELSE fn.children_hash[i]]]

full_node_batch_fix_no_db(fn) ==
    IF ~fn.is_dirty THEN fn
    ELSE FullNode_update_hash([FixDirtyChildren(fn) EXCEPT !.is_dirty = FALSE])

RECURSIVE save_tree_to_db(_, _)
RECURSIVE SaveChildren(_, _, _)
save_short_node_to_db(sn, d) ==
    LET d1 == DbPut(d, sn.node_hash, ShortNode_serialize(sn))
    IN IF IsSome(sn.next_node) THEN save_tree_to_db(Get(sn.next_node), d1)
       ELSE d1

SaveChildren(fn, i, d) ==
    IF i > 15 THEN d
    ELSE SaveChildren(fn, i + 1,
            IF IsSome(fn.children[i])
            THEN save_short_node_to_db(Get(fn.children[i]), d) ELSE d)

save_tree_to_db(fn, d) ==
    SaveChildren(fn, 0, DbPut(d, fn.node_hash, FullNode_serialize(fn)))

\* a database entry that is not a node
Blob(kind, h) ==
    [kind |-> kind, node_hash |-> h, children_hash |-> NoChildren,
     value |-> None, prefix |-> "", is_leaf |-> FALSE, suffix |-> <<>>,
     next_node_hash |-> ZeroHash]

\* delete then put of sha256(root_hash) -> root_hash
update_mpt_in_db(m, d) ==
    DbPut(DbDelete(d, Sha(m.root_hash)), Sha(m.root_hash),
          Blob("mpt", m.root_hash))

\* MPT::batch_fix: [mpt, db]
batch_fix(m, d) ==
    LET root == FullNode_update_hash(
                   [FixDirtyChildren(Get(m.root)) EXCEPT !.is_dirty = FALSE])
        m1 == [root_hash |-> root.node_hash, root |-> Some(root)]
        d1 == DbPut(d, root.node_hash, FullNode_serialize(root))
    IN IF IsNone(m.root) THEN [mpt |-> m, db |-> d]
       ELSE IF ~Get(m.root).is_dirty THEN [mpt |-> m, db |-> d]
       ELSE [mpt |-> m1, db |-> update_mpt_in_db(m1, save_tree_to_db(root, d1))]

\* MPT::persist_to_db: [mpt, db]
persist_to_db(m, d) ==
    LET f == batch_fix(m, d)
    IN [mpt |-> f.mpt,
        db |-> DbPut(DbPut(f.db, "mpt:metadata",
                           Blob("metadata", f.mpt.root_hash)),
                     "mpt:root_hash", Blob("root_hash", f.mpt.root_hash))]

\* MPT::load_from_db: [mpt, st]
load_from_db(root_hash, d) ==
    LET g == get_root([root_hash |-> root_hash, root |-> None], d)
    IN [mpt |-> g.mpt, st |-> g.st]

\* MPT::restore_from_db: [mpt, st]
restore_from_db(d) ==
    IF "mpt:root_hash" \in DOMAIN d
    THEN load_from_db(d["mpt:root_hash"].node_hash, d)
    ELSE [mpt |-> MPT_new, st |-> "ok"]

-----------------------------------------------------------------------------
(* Primary index: inserts and verified queries on one MPT                  *)

\* keys as byte strings: "a", "b", "b4", "b5"
Keys == {<<97>>, <<98>>, <<98, 52>>, <<98, 53>>}
Values == {<<"x">>, <<"y">>}
\* candidate values offered to verify_query_result
Candidates == Values \cup {<<>>}
MaxOps == 4

Idle == [op |-> "none", key |-> <<>>, value |-> <<>>, arg |-> <<>>,
         flag |-> FALSE, accepts |-> {}, st |-> "ok"]

\* variables of the parts a specification does not exercise
NoMirror == mirror = MPT_new /\ mdb = EmptyDb
NoAcc == acc = 0 /\ accLast = 0
NoMgr == stor = 0 /\ roots = 0 /\ resp = 0

InitMPT ==
    /\ mpt = MPT_new
    /\ db = EmptyDb
    /\ last = Idle
    /\ hist = [stored |-> [k \in Keys |-> None], n |-> 0]
    /\ NoMirror /\ NoAcc /\ NoMgr

\* MPT::insert(KVPair(k, v), db, is_primary = true, flag = false); a panic
\* ends the run
Insert(k, v) ==
    \E r \in {MPT_insert(mpt, db, k, v, TRUE, FALSE)} :
       /\ hist.n < MaxOps
       /\ last.st /= "panic"
       /\ mpt' = r.mpt
       /\ db' = r.db
       /\ last' = [op |-> "insert", key |-> k, value |-> r.old, arg |-> v,
                   flag |-> r.flag, accepts |-> {}, st |-> r.st]
       /\ hist' = [stored |-> IF r.st = "ok"
                              THEN [hist.stored EXCEPT ![k] = Some(v)]
                              ELSE hist.stored,
                   n |-> hist.n + 1]
       /\ UNCHANGED <<mirror, mdb, acc, accLast, stor, roots, resp>>

\* (value, proof) = query_by_key(k), then verify_query_result(c, proof) for
\* every candidate c: `accepts` is the set of candidates that verify
Query(k) ==
    \E r \in {query_by_key(mpt, db, k)} :
       /\ last.st /= "panic"
       /\ mpt' = r.mpt
       /\ last' = [op |-> "query", key |-> k, value |-> r.value,
                   arg |-> <<>>, flag |-> r.proof.is_exist,
                   accepts |-> {c \in Candidates :
                                  verify_query_result(r.mpt, c, r.proof)},
                   st |-> r.st]
       /\ UNCHANGED <<db, hist, mirror, mdb, acc, accLast, stor, roots, resp>>

NextMPT ==
    \/ \E k \in Keys, v \in Values : Insert(k, v)
    \/ \E k \in Keys : Query(k)

SpecMPT == InitMPT /\ [][NextMPT]_vars

\* the value the inserts so far have left for k ("" when never inserted)
Expected(k) == IF IsSome(hist.stored[k]) THEN Get(hist.stored[k]) ELSE <<>>

\* C1: after any sequence of primary inserts into an empty MPT, a query for
\* a key returns the value of the most recent insert of that key, and the
\* empty string for a key never inserted.
C1_QueryReturnsLastInsert ==
    last.op = "query" => last.st = "ok" /\ last.value = Expected(last.key)

\* C2: after primary inserts (overwrites included), the value and proof
\* that query_by_key returns for a stored key verify against the current
\* root hash.
C2_StoredKeyVerifies ==
    (last.op = "query" /\ IsSome(hist.stored[last.key]))
        => last.value \in last.accepts

\* C3: with the proof that query_by_key(k) returns, a candidate value
\* verifies if and only if it is the value stored for k (the empty value
\* when k is absent).
C3_ProofSound ==
    last.op = "query" => last.accepts = {Expected(last.key)}

-----------------------------------------------------------------------------
(* Secondary index: the same add / delete events on one (key, value),      *)
(* delivered to two copies of the same starting MPT in independent orders  *)

SecKey == <<98>>
SecValue == <<"x">>
MaxSecOps == 3

\* other entries the starting MPT may hold: another value under the same
\* key, or a longer key in the same slot
SeedEntries ==
    { [key |-> <<98>>, value |-> <<"y">>],
      [key |-> <<98, 52>>, value |-> <<"y">>] }
MaxSeeds == 1

InitSec ==
    /\ mpt = MPT_new /\ db = EmptyDb
    /\ mirror = MPT_new /\ mdb = EmptyDb
    /\ last = Idle
    /\ hist = [seeds |-> 0, adds |-> 0, dels |-> 0, madds |-> 0, mdels |-> 0]
    /\ NoAcc /\ NoMgr

\* builds the common starting MPT: the same secondary add on both copies,
\* before any of the events under test
Seed(e) ==
    \E r \in {MPT_insert(mpt, db, e.key, e.value, FALSE, FALSE)} :
       /\ hist.seeds < MaxSeeds
       /\ hist.adds + hist.dels + hist.madds + hist.mdels = 0
       /\ mpt' = r.mpt /\ db' = r.db
       /\ mirror' = r.mpt /\ mdb' = r.db
       /\ last' = [op |-> "seed", key |-> e.key, value |-> r.old,
                   arg |-> e.value, flag |-> r.flag, accepts |-> {},
                   st |-> r.st]
       /\ hist' = [hist EXCEPT !.seeds = @ + 1]
       /\ UNCHANGED <<acc, accLast, stor, roots, resp>>

SecResult(op, r) ==
    [op |-> op, key |-> SecKey, value |-> r.old, arg |-> SecValue,
     flag |-> r.flag, accepts |-> {}, st |-> r.st]

\* insert(KVPair(SecKey, SecValue), is_primary = false, flag) on the first copy
SecInsert(flag) ==
    \E r \in {MPT_insert(mpt, db, SecKey, SecValue, FALSE, flag)} :
       /\ hist.adds + hist.dels < MaxSecOps
       /\ mpt' = r.mpt
       /\ db' = r.db
       /\ last' = SecResult(IF flag THEN "del" ELSE "add", r)
       /\ hist' = IF flag THEN [hist EXCEPT !.dels = @ + 1]
                          ELSE [hist EXCEPT !.adds = @ + 1]
       /\ UNCHANGED <<mirror, mdb, acc, accLast, stor, roots, resp>>

\* the same call on the second copy
MirrorInsert(flag) ==
    \E r \in {MPT_insert(mirror, mdb, SecKey, SecValue, FALSE, flag)} :
       /\ hist.madds + hist.mdels < MaxSecOps
       /\ mirror' = r.mpt
       /\ mdb' = r.db
       /\ last' = SecResult(IF flag THEN "mdel" ELSE "madd", r)
       /\ hist' = IF flag THEN [hist EXCEPT !.mdels = @ + 1]
                          ELSE [hist EXCEPT !.madds = @ + 1]
       /\ UNCHANGED <<mpt, db, acc, accLast, stor, roots, resp>>

NextSec ==
    \/ \E e \in SeedEntries : Seed(e)
    \/ \E flag \in BOOLEAN : SecInsert(flag)
    \/ \E flag \in BOOLEAN : MirrorInsert(flag)

SpecSec == InitSec /\ [][NextSec]_vars

\* both copies have received the same multiset of events
SameEvents == hist.adds = hist.madds /\ hist.dels = hist.mdels

\* C4: secondary-index add and delete events on the same (key, value),
\* applied to the same starting MPT in any two orders, give the same root
\* hash and the same comma-separated value for the key.
C4_SecondaryOrderIndependent ==
    SameEvents =>
        /\ mpt.root_hash = mirror.root_hash
        /\ query_by_key(mpt, db, SecKey).value
               = query_by_key(mirror, mdb, SecKey).value

-----------------------------------------------------------------------------
(* Restart: inserts, deletes and batch_fix on one MPT, persist_to_db, and  *)
(* restore_from_db into a second MPT over the same database                *)

MaxRestartOps == 3

InitRestart ==
    /\ mpt = MPT_new /\ db = EmptyDb
    /\ mirror = MPT_new /\ mdb = EmptyDb
    /\ last = Idle
    /\ hist = [n |-> 0]
    /\ NoAcc /\ NoMgr

Outcome(op, k, value, arg, st) ==
    [op |-> op, key |-> k, value |-> value, arg |-> arg, flag |-> FALSE,
     accepts |-> {}, st |-> st]

RInsert(k, v) ==
    \E r \in {MPT_insert(mpt, db, k, v, TRUE, FALSE)} :
       /\ hist.n < MaxRestartOps
       /\ last.st /= "panic"
       /\ mpt' = r.mpt /\ db' = r.db
       /\ last' = Outcome("insert", k, r.old, v, r.st)
       /\ hist' = [n |-> hist.n + 1]
       /\ UNCHANGED <<mirror, mdb, acc, accLast, stor, roots, resp>>

\* MPT::delete(k)
RDelete(k) ==
    \E r \in {MPT_delete(mpt, k)} :
       /\ hist.n < MaxRestartOps
       /\ last.st /= "panic"
       /\ mpt' = r.mpt
       /\ last' = Outcome("delete", k,
                          IF IsSome(r.deleted) THEN Get(r.deleted) ELSE <<>>,
                          <<>>, "ok")
       /\ hist' = [n |-> hist.n + 1]
       /\ UNCHANGED <<db, mirror, mdb, acc, accLast, stor, roots, resp>>

\* MPT::batch_fix
RBatchFix ==
    \E r \in {batch_fix(mpt, db)} :
       /\ last.st /= "panic"
       /\ mpt' = r.mpt /\ db' = r.db
       /\ last' = Outcome("batch_fix", <<>>, <<>>, <<>>, "ok")
       /\ UNCHANGED <<hist, mirror, mdb, acc, accLast, stor, roots, resp>>

\* batch_fix followed by persist_to_db
RPersist ==
    \E f \in {batch_fix(mpt, db)} :
      \E r \in {persist_to_db(f.mpt, f.db)} :
       /\ last.st /= "panic"
       /\ mpt' = r.mpt /\ db' = r.db
       /\ last' = Outcome("persist", <<>>, <<>>, <<>>, "ok")
       /\ UNCHANGED <<hist, mirror, mdb, acc, accLast, stor, roots, resp>>

\* restore_from_db on the database just persisted
RRestore ==
    \E r \in {restore_from_db(db)} :
       /\ last.op = "persist"
       /\ mirror' = r.mpt
       /\ last' = Outcome("restore", <<>>, <<>>, <<>>, r.st)
       /\ UNCHANGED <<mpt, db, hist, mdb, acc, accLast, stor, roots, resp>>

NextRestart ==
    \/ \E k \in Keys, v \in Values : RInsert(k, v)
    \/ \E k \in Keys : RDelete(k)
    \/ RBatchFix
    \/ RPersist
    \/ RRestore

SpecRestart == InitRestart /\ [][NextRestart]_vars

\* value and existence flag of a query, "err" when the query fails
Answer(m, d, k) ==
    LET r == query_by_key(m, d, k)
    IN IF r.st = "ok" THEN <<Str(r.value), r.proof.is_exist>>
       ELSE <<"err", FALSE>>

\* C5: after inserts and deletes (with or without earlier batch_fix calls),
\* batch_fix and persist_to_db, the MPT that restore_from_db builds from
\* the same database has the original's root hash and answers every key
\* as the original does.
C5_RestoreEqualsOriginal ==
    last.op = "restore" =>
        /\ last.st = "ok"
        /\ mirror.root_hash = mpt.root_hash
        /\ \A k \in Keys : Answer(mirror, db, k) = Answer(mpt, db, k)

-----------------------------------------------------------------------------
(* DynamicAccumulator.  The pairing groups have prime order; a group       *)
(* element g^x is represented by its exponent x in the scalar field, so    *)
(* scalar multiplication is multiplication of exponents and the pairing    *)
(* e(g1^a, g2^b) = gT^(a*b) is the product of the exponents.               *)

\* order of the scalar field Fr (a small prime stands for the curve's)
FieldP == 11
\* the trapdoor PRI_S
PRI_S == 7

Fr == 0..(FieldP - 1)
FrSub(a, b) == (a - b + FieldP) % FieldP
FrMul(a, b) == (a * b) % FieldP
\* Fr::inverse(): None for zero
FrInverse(a) ==
    IF a = 0 THEN None ELSE Some(CHOOSE b \in Fr : FrMul(a, b) = 1)

\* the i64 elements offered to the accumulator
MaxElem == 4
ElemIds == 1..MaxElem

\* digest_to_prime_field(element.to_digest()): a hash into Fr, injective on
\* the elements used and never equal to the trapdoor
digest_to_prime_field(e) == (3 * e) % FieldP

\* G1 generator, and G1Projective::mul by a scalar
G1Gen == 1
G1Mul(point, scalar) == FrMul(point, scalar)
\* G2_POWER.apply(x) = g2^x, and the G2 generator
G2Power(x) == x
G2Gen == 1
Pairing(p1, p2) == FrMul(p1, p2)

\* DynamicAccumulator::new
DynamicAccumulator_new == [acc_value |-> G1Mul(G1Gen, 1), elements |-> {}]

\* a delete that multiplies by (s - e) instead of its inverse
DeleteWithoutInverse(a, element) ==
    LET fr_element == digest_to_prime_field(element)
        new_acc == G1Mul(a.acc_value, FrSub(PRI_S, fr_element))
    IN IF fr_element \notin a.elements
       THEN [acc |-> a, ok |-> FALSE,
             proof |-> [old_acc_value |-> 0, new_acc_value |-> 0, element |-> 0]]
       ELSE [acc |-> [acc_value |-> new_acc,
                      elements |-> a.elements \ {fr_element}],
             ok |-> TRUE,
             proof |-> [old_acc_value |-> a.acc_value,
                        new_acc_value |-> new_acc, element |-> fr_element]]

\* an add that folds the element in before it checks for a duplicate
AddBeforeCheck(a, element) ==
    LET fr_element == digest_to_prime_field(element)
        new_acc == G1Mul(a.acc_value, FrSub(PRI_S, fr_element))
        grown == [acc_value |-> new_acc,
                  elements |-> a.elements \cup {fr_element}]
    IN [acc |-> grown, ok |-> fr_element \notin a.elements,
        proof |-> [old_acc_value |-> a.acc_value, new_acc_value |-> new_acc,
                   element |-> fr_element]]

\* a membership proof handed out without the membership check, with the
\* accumulator itself as the witness
ProveWithoutCheck(a, element) ==
    [ok |-> TRUE,
     proof |-> [witness |-> a.acc_value,
                element |-> digest_to_prime_field(element)]]

\* DynamicAccumulator::add: [acc, ok, proof]
DynamicAccumulator_add(a, element) ==
    LET fr_element == digest_to_prime_field(element)
        s_minus_elem == FrSub(PRI_S, fr_element)
        new_acc == G1Mul(a.acc_value, s_minus_elem)
    IN IF fr_element \in a.elements
       THEN [acc |-> a, ok |-> FALSE,
             proof |-> [old_acc_value |-> 0, new_acc_value |-> 0, element |-> 0]]
       ELSE [acc |-> [acc_value |-> new_acc,
                      elements |-> a.elements \cup {fr_element}],
             ok |-> TRUE,
             proof |-> [old_acc_value |-> a.acc_value,
                        new_acc_value |-> new_acc, element |-> fr_element]]

\* DynamicAccumulator::delete: [acc, ok, proof]
DynamicAccumulator_delete(a, element) ==
    LET fr_element == digest_to_prime_field(element)
        s_minus_elem_inv == FrInverse(FrSub(PRI_S, fr_element))
        new_acc == G1Mul(a.acc_value, Get(s_minus_elem_inv))
    IN IF fr_element \notin a.elements \/ IsNone(s_minus_elem_inv)
       THEN [acc |-> a, ok |-> FALSE,
             proof |-> [old_acc_value |-> 0, new_acc_value |-> 0, element |-> 0]]
       ELSE [acc |-> [acc_value |-> new_acc,
                      elements |-> a.elements \ {fr_element}],
             ok |-> TRUE,
             proof |-> [old_acc_value |-> a.acc_value,
                        new_acc_value |-> new_acc, element |-> fr_element]]

\* DynamicAccumulator::prove_membership: [ok, proof: (witness, element)]
prove_membership(a, element) ==
    LET fr_element == digest_to_prime_field(element)
        s_minus_elem_inv == FrInverse(FrSub(PRI_S, fr_element))
    IN IF fr_element \notin a.elements \/ IsNone(s_minus_elem_inv)
       THEN [ok |-> FALSE, proof |-> [witness |-> 0, element |-> 0]]
       ELSE [ok |-> TRUE,
             proof |-> [witness |-> G1Mul(a.acc_value, Get(s_minus_elem_inv)),
                        element |-> fr_element]]

\* MembershipProof::verify(accumulator)
MembershipProof_verify(proof, accumulator) ==
    Pairing(proof.witness, G2Power(FrSub(PRI_S, proof.element)))
        = Pairing(accumulator, G2Gen)

\* AddProof::verify
AddProof_verify(proof) ==
    Pairing(proof.new_acc_value, G2Gen)
        = Pairing(proof.old_acc_value, G2Power(FrSub(PRI_S, proof.element)))

\* DeleteProof::verify
DeleteProof_verify(proof) ==
    Pairing(proof.new_acc_value, G2Power(FrSub(PRI_S, proof.element)))
        = Pairing(proof.old_acc_value, G2Gen)

\* multiplication in the pairing's target group: an addition of exponents
GTMul(x, y) == (x + y) % FieldP
RECURSIVE EvalAtS(_)
\* product(X - e_i).evaluate(PRI_S)
EvalAtS(elements) ==
    IF elements = {} THEN 1
    ELSE LET elem == CHOOSE x \in elements : TRUE
         IN FrMul(EvalAtS(elements \ {elem}), FrSub(PRI_S, elem))

\* xgcd(q1, q2), normalised and evaluated at s: the pairs (A(s), B(s)) with
\* A * Q1 + B * Q2 = 1; the quotients have no common root
xgcd_at_s(q1_s, q2_s) ==
    {ab \in Fr \X Fr : (FrMul(ab[1], q1_s) + FrMul(ab[2], q2_s)) % FieldP = 1}

\* a non-membership proof with the two witnesses exchanged
ProveNonMembershipSwapped(a, element, ab) ==
    [ok |-> digest_to_prime_field(element) \notin a.elements,
     proof |-> [element |-> digest_to_prime_field(element),
                witness |-> G2Power(ab[1]), g1_a |-> G1Mul(G1Gen, ab[2])]]

\* DynamicAccumulator::prove_non_membership with the Bezout pair `ab` of
\* Q(X) = X - x and P(X) = product(X - e_i): [ok, proof]
prove_non_membership(a, element, ab) ==
    [ok |-> digest_to_prime_field(element) \notin a.elements,
     proof |-> [element |-> digest_to_prime_field(element),
                witness |-> G2Power(ab[2]), g1_a |-> G1Mul(G1Gen, ab[1])]]

\* DynamicAccumulator::verify_non_membership
verify_non_membership(a, proof) ==
    GTMul(Pairing(a.acc_value, proof.witness),
          Pairing(proof.g1_a, G2Power(FrSub(PRI_S, proof.element))))
        = Pairing(G1Gen, G2Gen)

\* DynamicAccumulator::query: Membership with the proof of prove_membership,
\* or NonMembership with a proof of prove_non_membership; `proofs` holds the
\* proofs xgcd can lead to, `ok` is false when the unwrap() panics
DynamicAccumulator_query(a, element) ==
    IF digest_to_prime_field(element) \in a.elements
    THEN [membership |-> TRUE, ok |-> prove_membership(a, element).ok,
          proof |-> prove_membership(a, element).proof,
          proofs |-> {prove_membership(a, element).proof}]
    ELSE LET bezout == xgcd_at_s(FrSub(PRI_S, digest_to_prime_field(element)),
                                 EvalAtS(a.elements))
         IN [membership |-> FALSE, ok |-> bezout /= {},
             proofs |-> {prove_non_membership(a, element, ab).proof :
                            ab \in bezout}]

-----------------------------------------------------------------------------
(* One accumulator under add, delete and membership queries                *)

AccIdle == [op |-> "none", elem |-> 0, ok |-> TRUE,
            before |-> DynamicAccumulator_new, verifies |-> FALSE,
            forged |-> {}]

InitAcc ==
    /\ acc = DynamicAccumulator_new
    /\ accLast = AccIdle
    /\ mpt = MPT_new /\ db = EmptyDb /\ last = Idle /\ hist = 0
    /\ NoMirror /\ NoMgr

AccAdd(e) ==
    \E r \in {DynamicAccumulator_add(acc, e)} :
       /\ acc' = r.acc
       /\ accLast' = [op |-> "add", elem |-> e, ok |-> r.ok, before |-> acc,
                      verifies |-> r.ok /\ AddProof_verify(r.proof),
                      forged |-> {}]
       /\ UNCHANGED <<mptVars, mgrVars>>

AccDelete(e) ==
    \E r \in {DynamicAccumulator_delete(acc, e)} :
       /\ acc' = r.acc
       /\ accLast' = [op |-> "delete", elem |-> e, ok |-> r.ok,
                      before |-> acc,
                      verifies |-> r.ok /\ DeleteProof_verify(r.proof),
                      forged |-> {}]
       /\ UNCHANGED <<mptVars, mgrVars>>

\* prove_membership(e), then verify against the current acc_value; `forged`
\* holds the field elements that verify when put in place of the proof's
AccProve(e) ==
    \E r \in {prove_membership(acc, e)} :
       /\ acc' = acc
       /\ accLast' = [op |-> "prove", elem |-> e, ok |-> r.ok, before |-> acc,
                      verifies |-> r.ok /\ MembershipProof_verify(r.proof,
                                                            acc.acc_value),
                      forged |-> IF r.ok
                                 THEN {x \in Fr \ {r.proof.element} :
                                         MembershipProof_verify(
                                             [r.proof EXCEPT !.element = x],
                                             acc.acc_value)}
                                 ELSE {}]
       /\ UNCHANGED <<mptVars, mgrVars>>

\* query(e), then verification of the returned proof against the current
\* acc_value with the verifier of the returned variant
AccQuery(e) ==
    \E r \in {DynamicAccumulator_query(acc, e)} :
       /\ acc' = acc
       /\ \E v \in IF r.ok
                   THEN {IF r.membership
                         THEN MembershipProof_verify(pf, acc.acc_value)
                         ELSE verify_non_membership(acc, pf) : pf \in r.proofs}
                   ELSE {FALSE} :
             accLast' = [op |-> "query", elem |-> e, ok |-> r.ok,
                         before |-> acc, verifies |-> v, forged |-> {},
                         membership |-> r.membership]
       /\ UNCHANGED <<mptVars, mgrVars>>

NextAcc ==
    \/ \E e \in ElemIds : AccAdd(e)
    \/ \E e \in ElemIds : AccDelete(e)
    \/ \E e \in ElemIds : AccProve(e)
    \/ \E e \in ElemIds : AccQuery(e)

SpecAcc == InitAcc /\ [][NextAcc]_vars

RECURSIVE FrProduct(_)
\* the product of (s - e) over a set of field elements, 1 for the empty set
FrProduct(S) ==
    IF S = {} THEN 1
    ELSE LET e == CHOOSE x \in S : TRUE
         IN FrMul(FrSub(PRI_S, e), FrProduct(S \ {e}))

\* C8: after any sequence of add and delete calls, acc_value is g1 raised
\* to the product of (s - e) over the current element set, g1 itself for
\* the empty set; it depends on the set only.
C8_AccValueIsProduct ==
    acc.acc_value = G1Mul(G1Gen, FrProduct(acc.elements))

C8_Witness ==
    /\ accLast.op = "delete" /\ accLast.ok
    /\ Cardinality(acc.elements) >= 2

\* C9: prove_membership succeeds exactly for the elements of the set; the
\* proof it returns verifies against the current acc_value, and no proof
\* with a substituted element verifies.
C9_MembershipExact ==
    accLast.op = "prove" =>
        /\ accLast.ok <=> digest_to_prime_field(accLast.elem) \in acc.elements
        /\ accLast.ok => accLast.verifies /\ accLast.forged = {}

C9_Witness ==
    /\ accLast.op = "prove" /\ accLast.ok /\ accLast.verifies
    /\ Cardinality(acc.elements) >= 2

-----------------------------------------------------------------------------
(* The storage node's accumulator ADS: one (accumulator, fid list) per     *)
(* keyword.  Byte vectors are sequences of chunks: a serialized G1 point,  *)
(* an i64 in little endian, or a single byte.                              *)

\* CanonicalSerialize::serialize of a G1Affine writes the compressed point
G1_SERIALIZED_SIZE == 48
G1Bytes(point) == [tag |-> "g1", val |-> point]
I64Bytes(e) == [tag |-> "i64", val |-> e]
U8(b) == [tag |-> "u8", val |-> b]
ChunkLen(c) ==
    IF c.tag = "g1" THEN G1_SERIALIZED_SIZE ELSE IF c.tag = "i64" THEN 8 ELSE 1

RECURSIVE BytesLen(_)
BytesLen(bytes) ==
    IF bytes = <<>> THEN 0 ELSE ChunkLen(bytes[1]) + BytesLen(Tail(bytes))

RECURSIVE Fold31(_, _)
\* bytes().fold(acc, |acc, b| acc * 31 + b); the strings of this model are
\* at most four bytes long, far below the i64 wrap-around
Fold31(bytes, a) ==
    IF bytes = <<>> THEN a ELSE Fold31(Tail(bytes), a * 31 + bytes[1])

\* fid_to_element: the fold over the bytes of "keyword:fid"
fid_to_element(keyword, fid) == Fold31(keyword \o <<58>> \o fid, 0)

serialize_update_proof(old_acc, new_acc, element, is_valid) ==
    <<G1Bytes(old_acc), G1Bytes(new_acc), I64Bytes(element),
      U8(IF is_valid THEN 1 ELSE 0)>>

serialize_membership_proof(witness, element, acc_value, is_valid) ==
    <<G1Bytes(witness), I64Bytes(element), G1Bytes(acc_value),
      U8(IF is_valid THEN 1 ELSE 0)>>

\* the keywords "k", "m", "n" and the fids "Aa", "Ab", "BB"
Keywords == {<<107>>, <<109>>, <<110>>}
Fids == {<<65, 97>>, <<65, 98>>, <<66, 66>>}

CryptoAccumulatorAds_new == [k \in Keywords |-> None]

\* Vec::contains
ListContains(list, x) == \E i \in 1..Len(list) : list[i] = x

\* acc_value.serialize(&mut root_hash)
RootOf(a) == <<G1Bytes(a.acc_value)>>

\* CryptoAccumulatorAds::add: [ads, proof, root_hash]
CryptoAccumulatorAds_add(ads, keyword, fid) ==
    LET element == fid_to_element(keyword, fid)
        entry == IF IsSome(ads[keyword]) THEN Get(ads[keyword])
                 ELSE [acc |-> DynamicAccumulator_new, fids |-> <<>>]
        old_acc_value == entry.acc.acc_value
        add_result == DynamicAccumulator_add(entry.acc, element)
        grown == [acc |-> add_result.acc, fids |-> Append(entry.fids, fid)]
    IN IF ListContains(entry.fids, fid)
       THEN [ads |-> [ads EXCEPT ![keyword] = Some(entry)],
             proof |-> serialize_update_proof(old_acc_value,
                                              entry.acc.acc_value, element, TRUE),
             root_hash |-> RootOf(entry.acc)]
       ELSE IF ~add_result.ok
       THEN [ads |-> [ads EXCEPT ![keyword] = Some(entry)],
             proof |-> serialize_update_proof(old_acc_value, old_acc_value,
                                              element, FALSE),
             root_hash |-> <<G1Bytes(old_acc_value)>>]
       ELSE [ads |-> [ads EXCEPT ![keyword] = Some(grown)],
             proof |-> serialize_update_proof(old_acc_value,
                           add_result.acc.acc_value, element,
                           AddProof_verify(add_result.proof)),
             root_hash |-> RootOf(add_result.acc)]


\* CryptoAccumulatorAds::query: [fids, proof]
CryptoAccumulatorAds_query(ads, keyword) ==
    IF IsNone(ads[keyword]) THEN [fids |-> <<>>, proof |-> <<U8(1)>>]
    ELSE LET entry == Get(ads[keyword])
             element == fid_to_element(keyword, entry.fids[1])
             q == DynamicAccumulator_query(entry.acc, element)
         IN [fids |-> entry.fids,
             proof |->
               IF entry.fids = <<>> THEN <<U8(1)>>
               ELSE IF q.membership
               THEN serialize_membership_proof(q.proof.witness, element,
                        entry.acc.acc_value,
                        MembershipProof_verify(q.proof, entry.acc.acc_value))
               ELSE <<U8(0)>>]

RECURSIVE Retain(_, _)
\* fids.retain(|f| f != fid)
Retain(fids, fid) ==
    IF fids = <<>> THEN <<>>
    ELSE IF fids[1] = fid THEN Retain(Tail(fids), fid)
    ELSE <<fids[1]>> \o Retain(Tail(fids), fid)

\* CryptoAccumulatorAds::delete: [ads, proof, root_hash, panic]; the expect
\* on the accumulator's delete panics when the element is not in the set
CryptoAccumulatorAds_delete(ads, keyword, fid) ==
    IF IsNone(ads[keyword])
    THEN [ads |-> ads, proof |-> <<U8(0)>>, root_hash |-> <<>>,
          panic |-> FALSE]
    ELSE LET element == fid_to_element(keyword, fid)
             entry == Get(ads[keyword])
             old_acc_value == entry.acc.acc_value
             del == DynamicAccumulator_delete(entry.acc, element)
             fids == Retain(entry.fids, fid)
             proof == serialize_update_proof(old_acc_value, del.acc.acc_value,
                          element, DeleteProof_verify(del.proof))
         IN IF ~del.ok
            THEN [ads |-> ads, proof |-> <<>>, root_hash |-> <<>>,
                  panic |-> TRUE]
            ELSE IF fids = <<>>
            THEN [ads |-> [ads EXCEPT ![keyword] = None], proof |-> proof,
                  root_hash |-> <<>>, panic |-> FALSE]
            ELSE [ads |-> [ads EXCEPT ![keyword] =
                                 Some([acc |-> del.acc, fids |-> fids])],
                  proof |-> proof, root_hash |-> RootOf(del.acc),
                  panic |-> FALSE]

-----------------------------------------------------------------------------
(* The storage node's RPC handlers.  The ADS sits behind an RwLock; a      *)
(* handler that panics while it holds the write guard poisons the lock,    *)
(* and every later lock().unwrap() panics in turn.                         *)

Storager_new == [ads |-> CryptoAccumulatorAds_new, poisoned |-> FALSE]

RpcErr == [ok |-> FALSE, proof |-> <<>>, root_hash |-> <<>>, fids |-> <<>>]

\* StoragerService::add: [s, rpc]
StoragerService_add(s, keyword, fid) ==
    IF s.poisoned THEN [s |-> s, rpc |-> RpcErr]
    ELSE LET r == CryptoAccumulatorAds_add(s.ads, keyword, fid)
         IN [s |-> [s EXCEPT !.ads = r.ads],
             rpc |-> [ok |-> TRUE, proof |-> r.proof,
                      root_hash |-> r.root_hash, fids |-> <<>>]]

\* StoragerService::query
StoragerService_query(s, keyword) ==
    IF s.poisoned THEN RpcErr
    ELSE LET r == CryptoAccumulatorAds_query(s.ads, keyword)
         IN [ok |-> TRUE, proof |-> r.proof, root_hash |-> <<>>,
             fids |-> r.fids]

\* StoragerService::delete: [s, rpc]
StoragerService_delete(s, keyword, fid) ==
    IF s.poisoned THEN [s |-> s, rpc |-> RpcErr]
    ELSE LET r == CryptoAccumulatorAds_delete(s.ads, keyword, fid)
         IN IF r.panic
            THEN [s |-> [s EXCEPT !.poisoned = TRUE], rpc |-> RpcErr]
            ELSE [s |-> [s EXCEPT !.ads = r.ads],
                  rpc |-> [ok |-> TRUE, proof |-> r.proof,
                           root_hash |-> r.root_hash, fids |-> <<>>]]

-----------------------------------------------------------------------------
(* The consistent hash ring and the manager                                *)

\* the hash values of the model's ring; DefaultHasher is modelled by a
\* fixed fold of the key's bytes into 0..RingSize-1
RingSize == 13
RECURSIVE HashFrom(_, _)
HashFrom(bytes, h) ==
    IF bytes = <<>> THEN h
    ELSE HashFrom(Tail(bytes), (h * 3 + bytes[1]) % RingSize)
\* ConsistentHashRing::hash
hash(key) == HashFrom(key, 0)

\* storagers of the deployment and virtual nodes per storager
NumStoragers == 2
VirtualNodes == 2
Nodes == 0..(NumStoragers - 1)

\* format!("storager-{}", idx)
NodeName(idx) == <<115, 116, 111, 114, 97, 103, 101, 114, 45, 48 + idx>>
\* format!("{}#vnode{}", node_name, i)
VirtualKey(node_name, i) ==
    node_name \o <<35, 118, 110, 111, 100, 101, 48 + i>>

ConsistentHashRing_new == [ring |-> {}, nodes |-> {}]

\* BTreeMap::insert on the ring: a later entry replaces one of equal hash
RingInsert(ring, h, node) == {e \in ring : e[1] /= h} \cup {<<h, node>>}

RECURSIVE AddVirtualNodes(_, _, _, _)
AddVirtualNodes(ring, node_name, i, virtual_nodes) ==
    IF i >= virtual_nodes THEN ring
    ELSE AddVirtualNodes(
             RingInsert(ring, hash(VirtualKey(node_name, i)), node_name),
             node_name, i + 1, virtual_nodes)

\* ConsistentHashRing::add_node
add_node(r, node_name, virtual_nodes) ==
    IF \E n \in r.nodes : n[1] = node_name THEN r
    ELSE [ring |-> AddVirtualNodes(r.ring, node_name, 0, virtual_nodes),
          nodes |-> r.nodes \cup {<<node_name, virtual_nodes>>}]

\* ConsistentHashRing::get_node: the first virtual node at or after the
\* key's hash, the first of the ring when there is none
get_node(r, key) ==
    IF r.ring = {} THEN None
    ELSE LET h == hash(key)
             after == {e \in r.ring : e[1] >= h}
             from == IF after = {} THEN r.ring ELSE after
             first == CHOOSE e \in from : \A o \in from : e[1] <= o[1]
         IN Some(first[2])

RECURSIVE AddStoragers(_, _)
AddStoragers(r, idx) ==
    IF idx >= NumStoragers THEN r
    ELSE AddStoragers(add_node(r, NodeName(idx), VirtualNodes), idx + 1)

\* Manager::new: the ring over storager-0 .. storager-(n-1), no root cached
Manager_new ==
    [hash_ring |-> AddStoragers(ConsistentHashRing_new, 0),
     root_hashes |-> [n \in Nodes |-> None]]

\* Manager::get_storager_for_keyword, as the storager's index
get_storager_for_keyword(keyword) ==
    LET node_name == get_node(Manager_new.hash_ring, keyword)
    IN IF IsNone(node_name) THEN None
       ELSE Some(CHOOSE n \in Nodes : NodeName(n) = Get(node_name))

\* the literals of verify_proof: min_size = 96 + 8 + 1, and &proof[..96]
MIN_PROOF_SIZE == 105
POINT_SLICE == 96

\* Manager::verify_proof: the storager's flag byte, the length, and a
\* point at the head of the proof; the root hash is not consulted
verify_proof(proof, root_hash) ==
    /\ proof /= <<>>
    /\ proof[Len(proof)] = U8(1)
    /\ BytesLen(proof) >= MIN_PROOF_SIZE
    /\ proof[1].tag = "g1" /\ ChunkLen(proof[1]) <= POINT_SLICE

\* Manager::update_root_hash
update_root_hash(root_hashes, storager_name, root_hash) ==
    [root_hashes EXCEPT ![storager_name] = Some(root_hash)]

\* the outcome of a mutation handler: st is "ok" for Ok(Response) and "err"
\* for Err(Status)
MgrOut(s, r, st, success) ==
    [stor |-> s, roots |-> r, st |-> st, success |-> success]

\* a result of the add loop with the StoragerAdd calls it has sent, in order
SentOut(o, sent) ==
    [stor |-> o.stor, roots |-> o.roots, st |-> o.st, success |-> o.success,
     sent |-> sent]

RECURSIVE AddEach(_, _, _, _, _, _)
\* the add loop over the unique keywords, in the HashSet's iteration order;
\* `strict` is the early return on an unverified proof (add, not update);
\* `sent` collects the StoragerAdd calls made so far
AddEach(s, r, fid, keywords, strict, sent) ==
    IF keywords = <<>> THEN SentOut(MgrOut(s, r, "ok", TRUE), sent)
    ELSE LET keyword == keywords[1]
             node == get_storager_for_keyword(keyword)
             call == StoragerService_add(s[Get(node)], keyword, fid)
             s2 == [s EXCEPT ![Get(node)] = call.s]
             verified == verify_proof(call.rpc.proof, call.rpc.root_hash)
             r2 == IF verified
                   THEN update_root_hash(r, Get(node), call.rpc.root_hash)
                   ELSE r
             sent2 == Append(sent, [keyword |-> keyword, node |-> Get(node),
                                    ok |-> call.rpc.ok,
                                    verified |-> call.rpc.ok /\ verified,
                                    root_hash |-> call.rpc.root_hash])
         IN IF IsNone(node) THEN SentOut(MgrOut(s, r, "err", FALSE), sent)
            ELSE IF ~call.rpc.ok
            THEN SentOut(MgrOut(s2, r, "err", FALSE), sent2)
            ELSE IF strict /\ ~verified
            THEN SentOut(MgrOut(s2, r, "ok", FALSE), sent2)
            ELSE AddEach(s2, r2, fid, Tail(keywords), strict, sent2)

RECURSIVE DeleteEach(_, _, _, _, _)
\* the delete loop over the unique keywords
DeleteEach(s, r, fid, keywords, strict) ==
    IF keywords = <<>> THEN MgrOut(s, r, "ok", TRUE)
    ELSE LET keyword == keywords[1]
             node == get_storager_for_keyword(keyword)
             call == StoragerService_delete(s[Get(node)], keyword, fid)
             s2 == [s EXCEPT ![Get(node)] = call.s]
             verified == verify_proof(call.rpc.proof, call.rpc.root_hash)
             r2 == IF verified
                   THEN update_root_hash(r, Get(node), call.rpc.root_hash)
                   ELSE r
         IN IF IsNone(node) THEN MgrOut(s, r, "err", FALSE)
            ELSE IF ~call.rpc.ok THEN MgrOut(s2, r, "err", FALSE)
            ELSE IF strict /\ ~verified THEN MgrOut(s2, r, "ok", FALSE)
            ELSE DeleteEach(s2, r2, fid, Tail(keywords), strict)

\* ManagerService::add
ManagerService_add(s, r, fid, keywords) ==
    IF keywords = <<>> THEN SentOut(MgrOut(s, r, "ok", FALSE), <<>>)
    ELSE AddEach(s, r, fid, keywords, TRUE, <<>>)

\* ManagerService::delete
ManagerService_delete(s, r, fid, keywords) ==
    IF keywords = <<>> THEN MgrOut(s, r, "ok", FALSE)
    ELSE DeleteEach(s, r, fid, keywords, TRUE)

\* ManagerService::update: the old keywords are deleted, then the new ones
\* added; an unverified proof is skipped and the reply is always a success
ManagerService_update(s, r, fid, old_keywords, new_keywords) ==
    LET d == DeleteEach(s, r, fid, old_keywords, FALSE)
    IN IF d.st = "err" THEN d
       ELSE AddEach(d.stor, d.roots, fid, new_keywords, FALSE, <<>>)

\* Manager::query_single_keyword: [st, fids, proof, root_hash, verified]
query_single_keyword(s, r, keyword) ==
    LET node == get_storager_for_keyword(keyword)
        rpc == StoragerService_query(s[Get(node)], keyword)
        root_hash == IF IsSome(r[Get(node)]) THEN Get(r[Get(node)]) ELSE <<>>
    IN IF IsNone(node) \/ ~rpc.ok
       THEN [st |-> "err", fids |-> <<>>, proof |-> <<>>,
             root_hash |-> <<>>, verified |-> FALSE]
       ELSE [st |-> "ok", fids |-> rpc.fids, proof |-> rpc.proof,
             root_hash |-> root_hash,
             verified |-> verify_proof(rpc.proof, root_hash)]

-----------------------------------------------------------------------------
(* A manager over NumStoragers storage nodes serving add, delete, update   *)
(* and single keyword queries, one request at a time                       *)

MaxMgrOps == 3
\* the unique keywords of a request, in every iteration order
KeywordLists ==
    {<<>>} \cup {<<k>> : k \in Keywords}
           \cup {<<k1, k2>> : <<k1, k2>> \in
                     {p \in Keywords \X Keywords : p[1] /= p[2]}}
ShortLists == {l \in KeywordLists : Len(l) <= 1}
Range(l) == {l[i] : i \in 1..Len(l)}

MgrIdle == [op |-> "none", fid |-> <<>>, keys |-> <<>>, st |-> "ok",
            success |-> FALSE, fids |-> <<>>, proof |-> <<>>,
            root_hash |-> <<>>, verified |-> FALSE, instance |-> None,
            fidset |-> {}, cached |-> FALSE]

InitMgr ==
    /\ stor = [n \in Nodes |-> Storager_new]
    /\ roots = Manager_new.root_hashes
    /\ resp = MgrIdle
    /\ hist = [added |-> {}, n |-> 0]
    /\ mpt = MPT_new /\ db = EmptyDb /\ last = Idle
    /\ NoMirror /\ NoAcc

MgrAdd(fid, keywords) ==
    /\ hist.n < MaxMgrOps
    /\ \E o \in {ManagerService_add(stor, roots, fid, keywords)} :
          /\ stor' = o.stor
          /\ roots' = o.roots
          /\ resp' = [MgrIdle EXCEPT !.op = "add", !.fid = fid,
                         !.keys = keywords, !.st = o.st,
                         !.success = o.success]
          /\ hist' = [added |-> IF o.st = "ok" /\ o.success
                                THEN hist.added \cup
                                       {<<fid, k>> : k \in Range(keywords)}
                                ELSE hist.added,
                      n |-> hist.n + 1]
    /\ UNCHANGED <<mpt, db, last, mirror, mdb, accVars>>

MgrDelete(fid, keywords) ==
    /\ hist.n < MaxMgrOps
    /\ \E o \in {ManagerService_delete(stor, roots, fid, keywords)} :
          /\ stor' = o.stor
          /\ roots' = o.roots
          /\ resp' = [MgrIdle EXCEPT !.op = "delete", !.fid = fid,
                         !.keys = keywords, !.st = o.st,
                         !.success = o.success]
          /\ hist' = [added |-> hist.added \
                                  {<<fid, k>> : k \in Range(keywords)},
                      n |-> hist.n + 1]
    /\ UNCHANGED <<mpt, db, last, mirror, mdb, accVars>>

MgrUpdate(fid, old_keywords, new_keywords) ==
    /\ hist.n < MaxMgrOps
    /\ \E o \in {ManagerService_update(stor, roots, fid, old_keywords,
                                       new_keywords)} :
          /\ stor' = o.stor
          /\ roots' = o.roots
          /\ resp' = [MgrIdle EXCEPT !.op = "update", !.fid = fid,
                         !.keys = old_keywords, !.st = o.st,
                         !.success = o.success]
          /\ hist' = [added |-> hist.added \
                                  {<<fid, k>> : k \in Range(old_keywords)},
                      n |-> hist.n + 1]
    /\ UNCHANGED <<mpt, db, last, mirror, mdb, accVars>>

\* `instance` is the serialized acc_value of the keyword's accumulator on
\* the node that answered, when the node holds one
MgrQuery(keyword) ==
    /\ hist.n < MaxMgrOps
    /\ \E o \in {query_single_keyword(stor, roots, keyword)} :
       \E n \in {Get(get_storager_for_keyword(keyword))} :
          /\ resp' = [MgrIdle EXCEPT !.op = "query", !.keys = <<keyword>>,
                         !.st = o.st, !.fids = o.fids, !.proof = o.proof,
                         !.root_hash = o.root_hash,
                         !.verified = o.verified,
                         !.instance =
                             IF IsSome(stor[n].ads[keyword])
                             THEN Some(RootOf(Get(stor[n].ads[keyword]).acc))
                             ELSE None,
                         !.cached = IsSome(roots[n])]
          /\ hist' = [hist EXCEPT !.n = hist.n + 1]
    /\ UNCHANGED <<stor, roots, mpt, db, last, mirror, mdb, accVars>>

-----------------------------------------------------------------------------
(* Boolean queries.  An expression is <<"kw", k>>, <<"and", l, r>>,        *)
(* <<"or", l, r>> or <<"not", e>>.                                         *)

RECURSIVE get_keywords(_)
\* BooleanExpr::get_keywords
get_keywords(expr) ==
    IF expr[1] = "kw" THEN {expr[2]}
    ELSE IF expr[1] = "not" THEN get_keywords(expr[2])
    ELSE get_keywords(expr[2]) \cup get_keywords(expr[3])

RECURSIVE EvaluateComplement(_, _)
\* an evaluation in which NOT is the complement within the fids of the map
EvaluateComplement(expr, keyword_results) ==
    IF expr[1] = "kw"
    THEN IF expr[2] \in DOMAIN keyword_results
         THEN keyword_results[expr[2]] ELSE {}
    ELSE IF expr[1] = "and"
    THEN EvaluateComplement(expr[2], keyword_results)
             \cap EvaluateComplement(expr[3], keyword_results)
    ELSE IF expr[1] = "or"
    THEN EvaluateComplement(expr[2], keyword_results)
             \cup EvaluateComplement(expr[3], keyword_results)
    ELSE UNION {keyword_results[k] : k \in DOMAIN keyword_results}
             \ EvaluateComplement(expr[2], keyword_results)

RECURSIVE evaluate(_, _)
\* BooleanExpr::evaluate over keyword -> fid set; NOT yields the empty set
evaluate(expr, keyword_results) ==
    IF expr[1] = "kw"
    THEN IF expr[2] \in DOMAIN keyword_results
         THEN keyword_results[expr[2]] ELSE {}
    ELSE IF expr[1] = "and"
    THEN evaluate(expr[2], keyword_results)
             \cap evaluate(expr[3], keyword_results)
    ELSE IF expr[1] = "or"
    THEN evaluate(expr[2], keyword_results)
             \cup evaluate(expr[3], keyword_results)
    ELSE {}

\* Manager::combine_proofs: the first proof, empty when there is none
combine_proofs(proofs) == IF proofs = <<>> THEN <<>> ELSE proofs[1]

RECURSIVE QueryEach(_, _, _, _, _)
\* the loop of query_boolean_function over the keywords, in iteration
\* order: [st, results, proofs]
QueryEach(s, r, keywords, results, proofs) ==
    IF keywords = <<>>
    THEN [st |-> "ok", results |-> results, proofs |-> proofs]
    ELSE LET keyword == keywords[1]
             node == get_storager_for_keyword(keyword)
             rpc == StoragerService_query(s[Get(node)], keyword)
             root_hash == IF IsSome(r[Get(node)]) THEN Get(r[Get(node)])
                          ELSE <<>>
         IN IF IsNone(node) \/ ~rpc.ok
               \/ ~verify_proof(rpc.proof, root_hash)
            THEN [st |-> "err", results |-> results, proofs |-> proofs]
            ELSE QueryEach(s, r, Tail(keywords),
                     [k \in DOMAIN results \cup {keyword} |->
                         IF k = keyword THEN Range(rpc.fids) ELSE results[k]],
                     Append(proofs, rpc.proof))

\* Manager::query_boolean_function on a parsed expression; `keywords` is
\* the keyword set in iteration order and `first_root` the first value of
\* the root cache's iteration: [st, fids, proof, root_hash, verified]
query_boolean_function(s, r, expr, keywords, first_root) ==
    LET q == QueryEach(s, r, keywords, [k \in {} |-> {}], <<>>)
    IN IF q.st = "err"
       THEN [st |-> "err", fids |-> {}, proof |-> <<>>, root_hash |-> <<>>,
             verified |-> FALSE]
       ELSE [st |-> "ok", fids |-> evaluate(expr, q.results),
             proof |-> combine_proofs(q.proofs), root_hash |-> first_root,
             verified |-> TRUE]

\* the expressions queried: a keyword, its negation, and AND / OR of two
Exprs ==
    {<<"kw", k>> : k \in Keywords}
      \cup {<<"not", <<"kw", k>>>> : k \in Keywords}
      \cup {<<op, <<"kw", p[1]>>, <<"kw", p[2]>>>> :
                op \in {"and", "or"}, p \in Keywords \X Keywords}

\* the iteration orders of a keyword set
Orders(S) ==
    {l \in KeywordLists : Range(l) = S /\ Len(l) = Cardinality(S)}

\* root_hashes.values().next(): any cached root, the default when none
FirstRoots(r) ==
    IF \A n \in Nodes : IsNone(r[n]) THEN {<<>>}
    ELSE {Get(r[n]) : n \in {x \in Nodes : IsSome(r[x])}}

\* the keywords of a set that have no stored instance on their node
Missing(s, S) ==
    {k \in S : IsNone(s[Get(get_storager_for_keyword(k))].ads[k])}

MgrBoolQuery(expr) ==
    /\ hist.n < MaxMgrOps
    /\ \E keywords \in Orders(get_keywords(expr)) :
       \E first_root \in FirstRoots(roots) :
       \E o \in {query_boolean_function(stor, roots, expr, keywords,
                                        first_root)} :
          /\ resp' = [MgrIdle EXCEPT !.op = "bool", !.keys = keywords,
                         !.st = o.st, !.fidset = o.fids, !.proof = o.proof,
                         !.root_hash = o.root_hash, !.verified = o.verified]
          /\ hist' = [hist EXCEPT !.n = hist.n + 1]
    /\ UNCHANGED <<stor, roots, mpt, db, last, mirror, mdb, accVars>>

NextMgr ==
    \/ \E f \in Fids : \E ks \in KeywordLists : MgrAdd(f, ks)
    \/ \E f \in Fids : \E ks \in KeywordLists : MgrDelete(f, ks)
    \/ \E f \in Fids : \E o \in ShortLists : \E n \in ShortLists :
           MgrUpdate(f, o, n)
    \/ \E k \in Keywords : MgrQuery(k)
    \/ \E expr \in Exprs : MgrBoolQuery(expr)

SpecMgr == InitMgr /\ [][NextMgr]_vars

\* the accumulator value a membership proof commits to, serialized
CommittedRoot(proof) ==
    IF Len(proof) = 4 /\ proof[3].tag = "g1" THEN <<proof[3]>> ELSE <<>>

\* C6: a query response is reported as verified only if the accumulator
\* value its proof commits to equals the root cached for the answering
\* node, and the root_hash returned to the client is the root of the ADS
\* instance that answered the query.
C6_VerifiedAgainstCachedRoot ==
    (resp.op = "query" /\ resp.st = "ok") =>
        /\ resp.verified => CommittedRoot(resp.proof) = resp.root_hash
        /\ IsSome(resp.instance) => resp.root_hash = Get(resp.instance)

\* C7: after Manager.Add(fid, K) has returned success, and while no Delete
\* or Update naming (fid, k) has run, Manager.Query(k) for every k in K
\* returns a fid list containing fid with verified = true.
C7_AddedFidIsFoundVerified ==
    resp.op = "query" =>
        \A f \in Fids :
            <<f, resp.keys[1]>> \in hist.added =>
                /\ resp.st = "ok"
                /\ ListContains(resp.fids, f)
                /\ resp.verified

-----------------------------------------------------------------------------
(* Intersection and union proofs over two accumulators                     *)

\* point addition in G1: an addition of exponents
G1Add(p, q) == (p + q) % FieldP


RECURSIVE SetAccValue(_)
\* acc_value = g1; for elem in elements { acc_value = acc_value.mul(s - elem) }
SetAccValue(elements) ==
    IF elements = {} THEN G1Gen
    ELSE LET elem == CHOOSE x \in elements : TRUE
         IN G1Mul(SetAccValue(elements \ {elem}), FrSub(PRI_S, elem))

\* DynamicAccumulator::prove_intersection with the Bezout pair `ab` of the
\* quotients: [ok, acc, proof]
prove_intersection(a, other, ab) ==
    LET intersection_elements == a.elements \cap other.elements
        q1_s == EvalAtS(a.elements \ intersection_elements)
        q2_s == EvalAtS(other.elements \ intersection_elements)
    IN [ok |-> ab \in xgcd_at_s(q1_s, q2_s),
        acc |-> [acc_value |-> SetAccValue(intersection_elements),
                 elements |-> intersection_elements],
        proof |-> [witness_a |-> G2Power(q1_s), witness_b |-> G2Power(q2_s),
                   witness_coprime_a |-> G1Mul(G1Gen, ab[1]),
                   witness_coprime_b |-> G1Mul(G1Gen, ab[2])]]

\* DynamicAccumulator::verify_intersection
verify_intersection(acc1_value, acc2_value, intersection_value, proof) ==
    /\ Pairing(acc1_value, G2Gen) = Pairing(intersection_value, proof.witness_a)
    /\ Pairing(acc2_value, G2Gen) = Pairing(intersection_value, proof.witness_b)
    /\ GTMul(Pairing(proof.witness_coprime_a, proof.witness_a),
             Pairing(proof.witness_coprime_b, proof.witness_b))
           = Pairing(G1Gen, G2Gen)

\* DynamicAccumulator::prove_union: [ok, acc, proof]
prove_union(a, other, ab) ==
    LET i == prove_intersection(a, other, ab)
        union_elements == a.elements \cup other.elements
    IN [ok |-> i.ok,
        acc |-> [acc_value |-> SetAccValue(union_elements),
                 elements |-> union_elements],
        proof |-> [intersection_acc_value |-> i.acc.acc_value,
                   intersection_proof |-> i.proof]]

\* DynamicAccumulator::verify_union
verify_union(acc1_value, acc2_value, union_acc_value, proof) ==
    /\ verify_intersection(acc1_value, acc2_value,
                           proof.intersection_acc_value,
                           proof.intersection_proof)
    /\ G1Add(acc1_value, acc2_value)
           = G1Add(union_acc_value, proof.intersection_acc_value)

-----------------------------------------------------------------------------
(* Two accumulators under add and delete, with union proofs between them   *)

MaxUnionOps == 5
UnionIdle == [op |-> "none", n |-> 0, ok |-> FALSE, relation |-> FALSE,
              inter_ok |-> FALSE, verified |-> FALSE]

InitUnion ==
    /\ acc = <<DynamicAccumulator_new, DynamicAccumulator_new>>
    /\ accLast = UnionIdle
    /\ mpt = MPT_new /\ db = EmptyDb /\ last = Idle /\ hist = 0
    /\ NoMirror /\ NoMgr

UAdd(i, e) ==
    /\ accLast.n < MaxUnionOps
    /\ \E r \in {DynamicAccumulator_add(acc[i], e)} :
          /\ acc' = [acc EXCEPT ![i] = r.acc]
          /\ accLast' = [UnionIdle EXCEPT !.op = "add", !.n = accLast.n + 1,
                                          !.ok = r.ok]
    /\ UNCHANGED <<mptVars, mgrVars>>

UDelete(i, e) ==
    /\ accLast.n < MaxUnionOps
    /\ \E r \in {DynamicAccumulator_delete(acc[i], e)} :
          /\ acc' = [acc EXCEPT ![i] = r.acc]
          /\ accLast' = [UnionIdle EXCEPT !.op = "delete",
                                          !.n = accLast.n + 1, !.ok = r.ok]
    /\ UNCHANGED <<mptVars, mgrVars>>

\* acc[1].prove_union(&acc[2]), then verify_union on the three values
UProveUnion ==
    /\ accLast.n < MaxUnionOps
    /\ \E ab \in Fr \X Fr :
       \E r \in {prove_union(acc[1], acc[2], ab)} :
          /\ r.ok
          /\ accLast' =
               [op |-> "union", n |-> accLast.n + 1, ok |-> r.ok,
                relation |->
                    G1Add(acc[1].acc_value, acc[2].acc_value)
                      = G1Add(r.acc.acc_value, r.proof.intersection_acc_value),
                inter_ok |->
                    verify_intersection(acc[1].acc_value, acc[2].acc_value,
                        r.proof.intersection_acc_value,
                        r.proof.intersection_proof),
                verified |->
                    verify_union(acc[1].acc_value, acc[2].acc_value,
                                 r.acc.acc_value, r.proof)]
    /\ UNCHANGED <<acc, mptVars, mgrVars>>

NextUnion ==
    \/ \E i \in {1, 2} : \E e \in ElemIds : UAdd(i, e)
    \/ \E i \in {1, 2} : \E e \in ElemIds : UDelete(i, e)
    \/ UProveUnion

SpecUnion == InitUnion /\ [][NextUnion]_vars

\* C11: for any two accumulators the values satisfy
\* acc(E1) + acc(E2) = acc(E1 u E2) + acc(E1 n E2) in G1, so the union
\* accumulator and proof returned by prove_union are accepted by
\* verify_union.
C11_UnionProofAccepted ==
    accLast.op = "union" => accLast.relation /\ accLast.verified

\* C12: a query for a keyword that has no stored instance returns an empty
\* fid list with a proof marker the manager accepts: the single keyword
\* query reports verified = true, and a boolean query over such keywords
\* does not fail.
C12_MissingKeywordAccepted ==
    /\ (resp.op = "query" /\ resp.st = "ok" /\ IsNone(resp.instance)) =>
           resp.fids = <<>> /\ resp.verified
    /\ (resp.op = "bool" /\ (\A n \in Nodes : ~stor[n].poisoned)
          /\ Missing(stor, Range(resp.keys)) = Range(resp.keys)) =>
           resp.st = "ok"

-----------------------------------------------------------------------------
(* The MPT variant of the storage node's ADS: one (MPT, database, fid      *)
(* list) per keyword, the fid list stored under the keyword as its value   *)

\* the text of the bytes used in fids
CharOf(b) ==
    IF b = 65 THEN "A" ELSE IF b = 66 THEN "B" ELSE IF b = 97 THEN "a"
    ELSE IF b = 98 THEN "b" ELSE "?"
Utf8(bytes) == [i \in 1..Len(bytes) |-> CharOf(bytes[i])]

RECURSIVE encode_fids(_)
\* MptAds::encode_fids: fids.join(",")
encode_fids(fids) ==
    IF fids = <<>> THEN <<>>
    ELSE IF Len(fids) = 1 THEN Utf8(fids[1])
    ELSE Utf8(fids[1]) \o <<",">> \o encode_fids(Tail(fids))

MptAds_new == [k \in Keywords |-> None]

\* trie.root_hash.to_vec()
RootBytes(trie) == <<trie.root_hash>>

\* an add that records the fid without looking for it in the list
AddAlwaysPush(ads, keyword, fid) ==
    LET entry == IF IsSome(ads[keyword]) THEN Get(ads[keyword])
                 ELSE [mpt |-> MPT_new, db |-> EmptyDb, fids |-> <<>>]
        fids == Append(entry.fids, fid)
        Stored(ins) ==
            [ads |-> [ads EXCEPT ![keyword] =
                         Some([mpt |-> ins.mpt, db |-> ins.db,
                               fids |-> fids])],
             proof |-> RootBytes(ins.mpt), root_hash |-> RootBytes(ins.mpt),
             panic |-> ins.st = "panic"]
    IN Stored(MPT_insert(entry.mpt, entry.db, keyword, encode_fids(fids),
                         TRUE, FALSE))

\* MptAds::add: [ads, proof, root_hash, panic]
MptAds_add(ads, keyword, fid) ==
    LET entry == IF IsSome(ads[keyword]) THEN Get(ads[keyword])
                 ELSE [mpt |-> MPT_new, db |-> EmptyDb, fids |-> <<>>]
        fids == IF ListContains(entry.fids, fid) THEN entry.fids
                ELSE Append(entry.fids, fid)
        Stored(ins) ==
            [ads |-> [ads EXCEPT ![keyword] =
                         Some([mpt |-> ins.mpt, db |-> ins.db,
                               fids |-> fids])],
             proof |-> RootBytes(ins.mpt), root_hash |-> RootBytes(ins.mpt),
             panic |-> ins.st = "panic"]
    IN Stored(MPT_insert(entry.mpt, entry.db, keyword, encode_fids(fids),
                         TRUE, FALSE))

\* MptAds::query: [fids, proof]
MptAds_query(ads, keyword) ==
    IF IsNone(ads[keyword]) THEN [fids |-> <<>>, proof |-> <<>>]
    ELSE [fids |-> Get(ads[keyword]).fids,
          proof |-> RootBytes(Get(ads[keyword]).mpt)]

\* MptAds::delete: [ads, proof, root_hash, panic]
MptAds_delete(ads, keyword, fid) ==
    IF IsNone(ads[keyword])
    THEN [ads |-> ads, proof |-> <<>>, root_hash |-> <<>>, panic |-> FALSE]
    ELSE LET entry == Get(ads[keyword])
             fids == Retain(entry.fids, fid)
             Emptied(del) ==
                 IF del.mpt.root_hash = ZeroHash
                 THEN [ads |-> [ads EXCEPT ![keyword] = None],
                       proof |-> <<>>, root_hash |-> <<>>, panic |-> FALSE]
                 ELSE [ads |-> [ads EXCEPT ![keyword] =
                                   Some([mpt |-> del.mpt, db |-> entry.db,
                                         fids |-> fids])],
                       proof |-> <<>>, root_hash |-> RootBytes(del.mpt),
                       panic |-> FALSE]
             Stored(ins) ==
                 [ads |-> [ads EXCEPT ![keyword] =
                              Some([mpt |-> ins.mpt, db |-> ins.db,
                                    fids |-> fids])],
                  proof |-> RootBytes(ins.mpt),
                  root_hash |-> RootBytes(ins.mpt),
                  panic |-> ins.st = "panic"]
         IN IF fids = <<>>
            THEN Emptied(MPT_delete(entry.mpt, keyword))
            ELSE Stored(MPT_insert(entry.mpt, entry.db, keyword,
                                   encode_fids(fids), TRUE, FALSE))

-----------------------------------------------------------------------------
(* One storage node's ADS, of the variant chosen at start, under add,       *)
(* query and delete                                                        *)

MaxAdsOps == 4

\* the fid list and the root digest a variant holds for a keyword
FidsOf(ads, keyword) ==
    IF IsNone(ads[keyword]) THEN <<>> ELSE Get(ads[keyword]).fids
AccRootOf(ads, keyword) ==
    IF IsNone(ads[keyword]) THEN <<>> ELSE RootOf(Get(ads[keyword]).acc)
MptRootOf(ads, keyword) ==
    IF IsNone(ads[keyword]) THEN <<>> ELSE RootBytes(Get(ads[keyword]).mpt)

AdsIdle == [op |-> "none", variant |-> "none", keyword |-> <<>>,
            fid |-> <<>>, proof |-> <<>>, root_hash |-> <<>>,
            fids |-> <<>>, panic |-> FALSE, before |-> <<>>,
            before_root |-> <<>>, had |-> FALSE]

InitAds ==
    /\ \E v \in {"acc", "mpt"} :
          stor = [variant |-> v, acc |-> CryptoAccumulatorAds_new,
                  mpt |-> MptAds_new]
    /\ resp = AdsIdle
    /\ hist = [n |-> 0, added |-> {}]
    /\ roots = 0
    /\ mpt = MPT_new /\ db = EmptyDb /\ last = Idle
    /\ NoMirror /\ NoAcc

\* the bookkeeping shared by the actions: `added` holds <<variant, k, fid>>
\* for the adds that have not been followed by a delete of the same pair
AdsStep(variant, op, keyword, fid, ads, o) ==
    /\ resp' = [AdsIdle EXCEPT !.op = op, !.variant = variant,
                   !.keyword = keyword, !.fid = fid, !.proof = o.proof,
                   !.root_hash = o.root_hash, !.panic = o.panic,
                   !.before = FidsOf(ads, keyword),
                   !.before_root = IF variant = "acc"
                                   THEN AccRootOf(ads, keyword)
                                   ELSE MptRootOf(ads, keyword),
                   !.had = IsSome(ads[keyword])]
    /\ hist' = [n |-> hist.n + 1,
                added |-> IF op = "add"
                          THEN hist.added \cup {<<variant, keyword, fid>>}
                          ELSE hist.added \ {<<variant, keyword, fid>>}]

AccAdsAdd(keyword, fid) ==
    /\ stor.variant = "acc" /\ hist.n < MaxAdsOps /\ ~resp.panic
    /\ \E o \in {CryptoAccumulatorAds_add(stor.acc, keyword, fid)} :
          /\ stor' = [stor EXCEPT !.acc = o.ads]
          /\ AdsStep("acc", "add", keyword, fid, stor.acc,
                     [proof |-> o.proof, root_hash |-> o.root_hash,
                      panic |-> FALSE])
    /\ UNCHANGED <<roots, mpt, db, last, mirror, mdb, accVars>>

AccAdsDelete(keyword, fid) ==
    /\ stor.variant = "acc" /\ hist.n < MaxAdsOps /\ ~resp.panic
    /\ \E o \in {CryptoAccumulatorAds_delete(stor.acc, keyword, fid)} :
          /\ stor' = [stor EXCEPT !.acc = o.ads]
          /\ AdsStep("acc", "delete", keyword, fid, stor.acc, o)
    /\ UNCHANGED <<roots, mpt, db, last, mirror, mdb, accVars>>

AccAdsQuery(keyword) ==
    /\ stor.variant = "acc" /\ hist.n < MaxAdsOps /\ ~resp.panic
    /\ \E o \in {CryptoAccumulatorAds_query(stor.acc, keyword)} :
          /\ resp' = [AdsIdle EXCEPT !.op = "query", !.variant = "acc",
                         !.keyword = keyword, !.proof = o.proof,
                         !.fids = o.fids]
          /\ hist' = [hist EXCEPT !.n = hist.n + 1]
    /\ UNCHANGED <<stor, roots, mpt, db, last, mirror, mdb, accVars>>

MptAdsAdd(keyword, fid) ==
    /\ stor.variant = "mpt" /\ hist.n < MaxAdsOps /\ ~resp.panic
    /\ \E o \in {MptAds_add(stor.mpt, keyword, fid)} :
          /\ stor' = [stor EXCEPT !.mpt = o.ads]
          /\ AdsStep("mpt", "add", keyword, fid, stor.mpt, o)
    /\ UNCHANGED <<roots, mpt, db, last, mirror, mdb, accVars>>

MptAdsDelete(keyword, fid) ==
    /\ stor.variant = "mpt" /\ hist.n < MaxAdsOps /\ ~resp.panic
    /\ \E o \in {MptAds_delete(stor.mpt, keyword, fid)} :
          /\ stor' = [stor EXCEPT !.mpt = o.ads]
          /\ AdsStep("mpt", "delete", keyword, fid, stor.mpt, o)
    /\ UNCHANGED <<roots, mpt, db, last, mirror, mdb, accVars>>

MptAdsQuery(keyword) ==
    /\ stor.variant = "mpt" /\ hist.n < MaxAdsOps /\ ~resp.panic
    /\ \E o \in {MptAds_query(stor.mpt, keyword)} :
          /\ resp' = [AdsIdle EXCEPT !.op = "query", !.variant = "mpt",
                         !.keyword = keyword, !.proof = o.proof,
                         !.fids = o.fids]
          /\ hist' = [hist EXCEPT !.n = hist.n + 1]
    /\ UNCHANGED <<stor, roots, mpt, db, last, mirror, mdb, accVars>>

\* the keywords "k" and "m" are enough for one node
AdsKeywords == {<<107>>, <<109>>}

NextAds ==
    \/ \E k \in AdsKeywords : \E f \in Fids : AccAdsAdd(k, f)
    \/ \E k \in AdsKeywords : \E f \in Fids : AccAdsDelete(k, f)
    \/ \E k \in AdsKeywords : AccAdsQuery(k)
    \/ \E k \in AdsKeywords : \E f \in Fids : MptAdsAdd(k, f)
    \/ \E k \in AdsKeywords : \E f \in Fids : MptAdsDelete(k, f)
    \/ \E k \in AdsKeywords : MptAdsQuery(k)

SpecAds == InitAds /\ [][NextAds]_vars

\* the proof's trailing flag byte of the accumulator variant
ValidFlag(proof) == proof /= <<>> /\ proof[Len(proof)] = U8(1)

\* C13: for a fixed keyword distinct fids map to distinct accumulator
\* elements, so an Add of a fid not yet listed for the keyword stores the fid
\* with a proof marked valid, and Query returns every fid added and not
\* deleted.
C13_DistinctFidsDistinctElements ==
    /\ (resp.variant = "acc" /\ resp.op = "add"
          /\ ~ListContains(resp.before, resp.fid)) =>
           /\ ValidFlag(resp.proof)
           /\ ListContains(FidsOf(stor.acc, resp.keyword), resp.fid)
    /\ (resp.variant = "acc" /\ resp.op = "query") =>
           Range(resp.fids) =
               {f \in Fids : <<"acc", resp.keyword, f>> \in hist.added}

\* C14: a second Add of a (keyword, fid) pair already stored leaves the
\* keyword's fid list and root digest unchanged and returns that unchanged
\* root digest, in the accumulator variant and in the MPT variant.
C14_AddIsIdempotent ==
    (resp.op = "add" /\ ListContains(resp.before, resp.fid)) =>
        /\ ~resp.panic
        /\ resp.root_hash = resp.before_root
        /\ resp.variant = "acc" =>
              /\ FidsOf(stor.acc, resp.keyword) = resp.before
              /\ AccRootOf(stor.acc, resp.keyword) = resp.before_root
        /\ resp.variant = "mpt" =>
              /\ FidsOf(stor.mpt, resp.keyword) = resp.before
              /\ MptRootOf(stor.mpt, resp.keyword) = resp.before_root

\* a repeated Add reached a keyword of the MPT variant that lists two fids
C14_Witness ==
    /\ resp.op = "add" /\ resp.variant = "mpt"
    /\ ListContains(resp.before, resp.fid)
    /\ Len(resp.before) = 2
    /\ resp.before_root /= <<ZeroHash>>

\* a repeated Add reached a keyword of the accumulator variant
C14_WitnessAcc ==
    /\ resp.op = "add" /\ resp.variant = "acc"
    /\ ListContains(resp.before, resp.fid)
    /\ Len(resp.before) = 2

\* C15: Delete of a stored (keyword, fid) pair removes exactly that pair;
\* when the keyword's fid list becomes empty the keyword's instance leaves
\* the map and the returned root digest is empty, otherwise the instance
\* stays with the other fids unchanged and the returned root digest is the
\* instance's new root; in both variants.
C15_DeleteRemovesExactlyThePair ==
    (resp.op = "delete" /\ ListContains(resp.before, resp.fid)) =>
        /\ ~resp.panic
        /\ \E ads \in {IF resp.variant = "acc" THEN stor.acc ELSE stor.mpt} :
              /\ FidsOf(ads, resp.keyword) = Retain(resp.before, resp.fid)
              /\ IF Retain(resp.before, resp.fid) = <<>>
                 THEN IsNone(ads[resp.keyword]) /\ resp.root_hash = <<>>
                 ELSE /\ IsSome(ads[resp.keyword])
                      /\ resp.root_hash =
                            IF resp.variant = "acc"
                            THEN AccRootOf(ads, resp.keyword)
                            ELSE MptRootOf(ads, resp.keyword)

-----------------------------------------------------------------------------
(* One MPT under primary inserts and deletes.  `hist.stored` is the map    *)
(* the operations describe; `last` keeps what the operation returned and   *)
(* what was stored under its key when it started.                          *)

MaxDelOps == 5

InitDel ==
    /\ mpt = MPT_new /\ db = EmptyDb
    /\ last = [Idle EXCEPT !.arg = [prev |-> None, before |-> MPT_new]]
    /\ hist = [stored |-> [k \in Keys |-> None], n |-> 0]
    /\ NoMirror /\ NoAcc /\ NoMgr

\* MPT::insert(KVPair(k, v), db, is_primary = true, flag = false)
DInsert(k, v) ==
    /\ hist.n < MaxDelOps
    /\ last.st /= "panic"
    /\ \E r \in {MPT_insert(mpt, db, k, v, TRUE, FALSE)} :
          /\ mpt' = r.mpt /\ db' = r.db
          /\ last' = [op |-> "insert", key |-> k, value |-> r.old,
                      arg |-> [prev |-> hist.stored[k], before |-> mpt],
                      flag |-> r.flag, accepts |-> {}, st |-> r.st]
          /\ hist' = [stored |-> IF r.st = "ok"
                                 THEN [hist.stored EXCEPT ![k] = Some(v)]
                                 ELSE hist.stored,
                      n |-> hist.n + 1]
    /\ UNCHANGED <<mirror, mdb, acc, accLast, stor, roots, resp>>

\* MPT::delete(k): `value` is the Option the call returns
DDelete(k) ==
    /\ hist.n < MaxDelOps
    /\ last.st /= "panic"
    /\ \E r \in {MPT_delete(mpt, k)} :
          /\ mpt' = r.mpt
          /\ last' = [op |-> "delete", key |-> k, value |-> r.deleted,
                      arg |-> [prev |-> hist.stored[k], before |-> mpt],
                      flag |-> FALSE, accepts |-> {}, st |-> "ok"]
          /\ hist' = [stored |-> [hist.stored EXCEPT ![k] = None],
                      n |-> hist.n + 1]
    /\ UNCHANGED <<db, mirror, mdb, acc, accLast, stor, roots, resp>>

NextDel ==
    \/ \E k \in Keys, v \in Values : DInsert(k, v)
    \/ \E k \in Keys : DDelete(k)

SpecDel == InitDel /\ [][NextDel]_vars

\* C16: delete(k) of a stored key returns its value; afterwards
\* query_by_key(k) returns the empty value with is_exist = false and every
\* other stored key still answers its value; delete(k) of an absent key
\* returns None and changes nothing.
C16_DeleteRemovesOnlyTheKey ==
    last.op = "delete" =>
        IF IsSome(last.arg.prev)
        THEN /\ last.value = last.arg.prev
             /\ Answer(mpt, db, last.key) = <<"", FALSE>>
             /\ \A k \in Keys \ {last.key} :
                   IsSome(hist.stored[k]) =>
                       Answer(mpt, db, k) = <<Str(Get(hist.stored[k])), TRUE>>
        ELSE /\ last.value = None
             /\ mpt = last.arg.before

\* C17: a primary insert returns as its old value the value stored under the
\* inserted key before the call, and the empty string when the key was not
\* stored, whatever other keys the MPT holds.
C17_InsertReturnsOldValue ==
    (last.op = "insert" /\ last.st = "ok") =>
        last.value = IF IsSome(last.arg.prev) THEN Get(last.arg.prev)
                     ELSE <<>>

-----------------------------------------------------------------------------
(* The posting list of one secondary-index key under add and delete of     *)
(* tokens, one of which is a substring of another                          *)

PostKey == <<98>>
PostTokens == {<<"x">>, <<"y">>, <<"x", "y">>}
MaxPostOps == 4

\* the tokens of the comma-separated value stored under PostKey
TokensOf(m, d) ==
    LET value == query_by_key(m, d, PostKey).value
    IN IF value = <<>> THEN <<>> ELSE Split(value)

\* deferred deletions of (PostKey, v) held in the root's or the leaf's
\* to_del_map
PendingDel(m, v) ==
    LET kp == key_to_hex_path(PostKey)
        root == Get(m.root)
        child == root.children[kp[1]]
    IN IF IsNone(m.root) THEN 0
       ELSE DelCount(root.to_del_map, kp, v)
            + (IF IsSome(child) THEN DelCount(Get(child).to_del_map, kp, v)
               ELSE 0)

InitPost ==
    /\ mpt = MPT_new /\ db = EmptyDb
    /\ last = [Idle EXCEPT !.arg = [before |-> <<>>, pending |-> 0]]
    /\ hist = [n |-> 0]
    /\ NoMirror /\ NoAcc /\ NoMgr

\* insert(KVPair(PostKey, v), is_primary = false, flag): flag = false adds
\* the token, flag = true deletes it
PostInsert(v, flag) ==
    /\ hist.n < MaxPostOps
    /\ last.st /= "panic"
    /\ \E r \in {MPT_insert(mpt, db, PostKey, v, FALSE, flag)} :
          /\ mpt' = r.mpt /\ db' = r.db
          /\ last' = [op |-> IF flag THEN "del" ELSE "add", key |-> PostKey,
                      value |-> v,
                      arg |-> [before |-> TokensOf(mpt, db),
                               pending |-> PendingDel(mpt, v)],
                      flag |-> r.flag, accepts |-> {}, st |-> r.st]
    /\ hist' = [n |-> hist.n + 1]
    /\ UNCHANGED <<mirror, mdb, acc, accLast, stor, roots, resp>>

NextPost ==
    \/ \E v \in PostTokens : PostInsert(v, FALSE)
    \/ \E v \in PostTokens : PostInsert(v, TRUE)

SpecPost == InitPost /\ [][NextPost]_vars

\* the tokens of a list other than v, in order
Others(toks, v) == SelectSeq(toks, LAMBDA t : t /= v)

\* C18: after a secondary add of (k, v) with no deferred deletion pending
\* for (k, v) the token list stored for k holds v exactly once; after a
\* secondary delete of (k, v) the list does not hold v and every other
\* token is unchanged; the list never holds a token twice.
C18_PostingListIsASet ==
    \E toks \in {TokensOf(mpt, db)} :
       /\ (last.op = "add" /\ last.st = "ok" /\ last.arg.pending = 0) =>
              Len(toks) - Len(Others(toks, last.value)) = 1
       /\ (last.op = "del" /\ last.st = "ok") =>
              /\ Others(toks, last.value) = toks
              /\ toks = Others(last.arg.before, last.value)
       /\ \A i, j \in 1..Len(toks) : toks[i] = toks[j] => i = j

-----------------------------------------------------------------------------
(* Manager.Add on requests that may repeat a keyword, with the StoragerAdd *)
(* calls of each request recorded                                          *)

MaxSendOps == 3

\* the keywords "k" and "m" live on different storage nodes
SendKeywords == {<<107>>, <<109>>}
\* a fid and the fid that collides with it
SendFids == {<<65, 97>>, <<66, 66>>}
\* keyword lists of a request, repeats allowed
Requests == UNION {[1..n -> SendKeywords] : n \in 0..3}

\* a request whose keywords are used as given, repeats included
KeywordsAsGiven(request) == {request}

\* req.keywords.into_iter().collect::<HashSet<_>>(): the distinct keywords,
\* in any iteration order
unique_keywords(request) == Orders(Range(request))

SendIdle == [op |-> "none", fid |-> <<>>, request |-> <<>>, keys |-> <<>>,
             st |-> "ok", success |-> FALSE, sent |-> <<>>,
             stor0 |-> <<>>, roots0 |-> <<>>]

InitSend ==
    /\ stor = [n \in Nodes |-> Storager_new]
    /\ roots = Manager_new.root_hashes
    /\ resp = SendIdle
    /\ hist = [n |-> 0]
    /\ mpt = MPT_new /\ db = EmptyDb /\ last = Idle
    /\ NoMirror /\ NoAcc

\* ManagerService::add
SendAdd(fid, request) ==
    /\ hist.n < MaxSendOps
    /\ \E keywords \in unique_keywords(request) :
         \E o \in {ManagerService_add(stor, roots, fid, keywords)} :
          /\ stor' = o.stor
          /\ roots' = o.roots
          /\ resp' = [SendIdle EXCEPT !.op = "add", !.fid = fid,
                         !.request = request, !.keys = keywords,
                         !.st = o.st, !.success = o.success,
                         !.sent = o.sent, !.stor0 = stor, !.roots0 = roots]
    /\ hist' = [n |-> hist.n + 1]
    /\ UNCHANGED <<mpt, db, last, mirror, mdb, accVars>>

\* ManagerService::delete of one keyword
SendDelete(fid, keyword) ==
    /\ hist.n < MaxSendOps
    /\ \E o \in {ManagerService_delete(stor, roots, fid, <<keyword>>)} :
          /\ stor' = o.stor
          /\ roots' = o.roots
          /\ resp' = [SendIdle EXCEPT !.op = "delete", !.fid = fid,
                         !.request = <<keyword>>, !.keys = <<keyword>>,
                         !.st = o.st, !.success = o.success]
    /\ hist' = [n |-> hist.n + 1]
    /\ UNCHANGED <<mpt, db, last, mirror, mdb, accVars>>

NextSend ==
    \/ \E f \in SendFids : \E request \in Requests : SendAdd(f, request)
    \/ \E f \in Fids : \E k \in SendKeywords : SendDelete(f, k)

SpecSend == InitSend /\ [][NextSend]_vars

\* a recorded StoragerAdd call that made the request fail
FailedCall(c) == ~c.ok \/ ~c.verified

RECURSIVE RootsAfter(_, _)
\* the cached roots after the verified responses among the calls
RootsAfter(r, calls) ==
    IF calls = <<>> THEN r
    ELSE RootsAfter(IF FailedCall(calls[1]) THEN r
                    ELSE update_root_hash(r, calls[1].node,
                                          calls[1].root_hash),
                    Tail(calls))

\* C19: Manager.Add sends at most one StoragerAdd per distinct keyword; a
\* response that fails verification or a failed RPC ends the request with a
\* failure report, the keywords added before it stay added on their
\* shards, no StoragerAdd goes out for the remaining keywords, and the
\* failed response does not change the cached roots.
C19_AddStopsAtFirstFailure ==
    resp.op = "add" =>
      \E sent \in {resp.sent} :
        /\ \A i, j \in 1..Len(sent) :
              sent[i].keyword = sent[j].keyword => i = j
        /\ \A i \in 1..Len(sent) : sent[i].keyword = resp.keys[i]
        /\ Range(resp.keys) = Range(resp.request)
        /\ \A i \in 1..Len(sent) :
              FailedCall(sent[i]) =>
                 /\ i = Len(sent)
                 /\ resp.st = "err" \/ ~resp.success
        /\ \A i \in 1..Len(sent) :
              ~FailedCall(sent[i]) =>
                 ListContains(FidsOf(stor[sent[i].node].ads, sent[i].keyword),
                              resp.fid)
        /\ (\A i \in 1..Len(sent) : ~FailedCall(sent[i])) =>
              /\ Len(sent) = Len(resp.keys)
              /\ resp.request /= <<>> => resp.st = "ok" /\ resp.success
        /\ \A i \in (Len(sent) + 1)..Len(resp.keys) :
              \A n \in Nodes :
                 stor[n].ads[resp.keys[i]] = resp.stor0[n].ads[resp.keys[i]]
        /\ roots = RootsAfter(resp.roots0, sent)

\* a request with a repeated keyword whose second distinct keyword failed
\* verification after the first was added
C19_Witness ==
    /\ resp.op = "add" /\ Len(resp.sent) = 2
    /\ Len(resp.request) = 3
    /\ ~FailedCall(resp.sent[1]) /\ resp.sent[2].ok /\ ~resp.sent[2].verified
    /\ ~resp.success

\* a request stopped by a failed RPC before its second keyword
C19_WitnessRpc ==
    /\ resp.op = "add" /\ Len(resp.sent) = 1 /\ Len(resp.keys) = 2
    /\ ~resp.sent[1].ok /\ resp.st = "err"

\* C20: a manager with no cached root for a shard accepts the first query
\* response from that shard and stores the response's root in
\* roots[node_id], so that after the query the shard's cache entry is no
\* longer empty.
C20_FirstQueryBootstrapsRoot ==
    (resp.op = "query" /\ resp.st = "ok" /\ ~resp.cached) =>
        /\ resp.verified
        /\ IsSome(roots[Get(get_storager_for_keyword(resp.keys[1]))])

-----------------------------------------------------------------------------
(* BooleanExpr::evaluate applied to expressions of up to two levels of     *)
(* operators over maps that may miss a keyword                             *)

EvalKeywords == {<<107>>, <<109>>}
EvalFids == {<<65, 97>>, <<65, 98>>}

\* expressions with one more level of operators than those of E
OneMore(E) ==
    E \cup {<<"not", e>> : e \in E}
      \cup {<<op, p[1], p[2]>> : op \in {"and", "or"}, p \in E \X E}

EvalExprs == OneMore(OneMore({<<"kw", k>> : k \in EvalKeywords}))

\* HashMap<String, HashSet<String>> over some of the keywords
EvalMaps == UNION {[D -> SUBSET EvalFids] : D \in SUBSET EvalKeywords}

NoTrie == mpt = MPT_new /\ db = EmptyDb

InitEval ==
    /\ \E e \in EvalExprs, kr \in EvalMaps :
          last = [op |-> "input", expr |-> e, keyword_results |-> kr,
                  value |-> {}]
    /\ hist = 0
    /\ NoTrie /\ NoMirror /\ NoAcc /\ NoMgr

\* expr.evaluate(&keyword_results)
Evaluate ==
    /\ last.op = "input"
    /\ last' = [last EXCEPT !.op = "evaluate",
                   !.value = evaluate(last.expr, last.keyword_results)]
    /\ UNCHANGED <<mpt, db, hist, mirror, mdb, acc, accLast, stor, roots,
                   resp>>

NextEval == Evaluate

SpecEval == InitEval /\ [][NextEval]_vars

RECURSIVE Selects(_, _, _)
\* fid f is selected by expr: it is in the set mapped to a keyword, selected
\* by both operands of And, by one operand of Or, and never by Not
Selects(expr, kr, f) ==
    IF expr[1] = "kw" THEN expr[2] \in DOMAIN kr /\ f \in kr[expr[2]]
    ELSE IF expr[1] = "and"
    THEN Selects(expr[2], kr, f) /\ Selects(expr[3], kr, f)
    ELSE IF expr[1] = "or"
    THEN Selects(expr[2], kr, f) \/ Selects(expr[3], kr, f)
    ELSE FALSE

-----------------------------------------------------------------------------
(* ConsistentHashRing under add_node, remove_node and get_node             *)

\* ConsistentHashRing::remove_node: BTreeMap::remove of each replica's hash
remove_node(r, node_name) ==
    IF ~\E n \in r.nodes : n[1] = node_name THEN r
    ELSE LET reg == CHOOSE n \in r.nodes : n[1] = node_name
             hashes == {hash(VirtualKey(node_name, i)) : i \in 0..(reg[2] - 1)}
         IN [ring |-> {e \in r.ring : e[1] \notin hashes},
             nodes |-> r.nodes \ {reg}]

\* ConsistentHashRing::is_empty
is_empty(r) == r.nodes = {}

\* ConsistentHashRing::virtual_node_count
virtual_node_count(r) == Cardinality(r.ring)

MaxRingOps == 4
RingNames == {NodeName(i) : i \in 0..NumStoragers}
\* replica counts of a node: enough for two nodes' vnode hashes to meet
MaxReplicas == 4
Replicas == 0..MaxReplicas

RingIdle == [op |-> "none", name |-> <<>>, count |-> 0, key |-> <<>>,
             ret |-> None, before |-> ConsistentHashRing_new]

InitRing ==
    /\ roots = ConsistentHashRing_new
    /\ resp = RingIdle
    /\ hist = [n |-> 0]
    /\ stor = 0
    /\ NoTrie /\ last = Idle /\ NoMirror /\ NoAcc

\* ring.add_node(name, count): `ret` is the bool returned
RingAdd(name, count) ==
    /\ hist.n < MaxRingOps
    /\ roots' = add_node(roots, name, count)
    /\ resp' = [RingIdle EXCEPT !.op = "add", !.name = name,
                   !.count = count,
                   !.ret = Some(~\E n \in roots.nodes : n[1] = name),
                   !.before = roots]
    /\ hist' = [n |-> hist.n + 1]
    /\ UNCHANGED <<stor, mpt, db, last, mirror, mdb, accVars>>

\* ring.remove_node(name)
RingRemove(name) ==
    /\ hist.n < MaxRingOps
    /\ roots' = remove_node(roots, name)
    /\ resp' = [RingIdle EXCEPT !.op = "remove", !.name = name,
                   !.ret = Some(\E n \in roots.nodes : n[1] = name),
                   !.before = roots]
    /\ hist' = [n |-> hist.n + 1]
    /\ UNCHANGED <<stor, mpt, db, last, mirror, mdb, accVars>>

\* ring.get_node(key): `ret` is the Option returned
RingGet(key) ==
    /\ hist.n < MaxRingOps
    /\ resp' = [RingIdle EXCEPT !.op = "get", !.key = key,
                   !.ret = get_node(roots, key), !.before = roots]
    /\ hist' = [n |-> hist.n + 1]
    /\ UNCHANGED <<roots, stor, mpt, db, last, mirror, mdb, accVars>>

NextRing ==
    \/ \E name \in RingNames : \E count \in Replicas : RingAdd(name, count)
    \/ \E name \in RingNames : RingRemove(name)
    \/ \E key \in Keywords : RingGet(key)

SpecRing == InitRing /\ [][NextRing]_vars

RECURSIVE ReplicaSum(_)
\* the sum of the replica counts of a set of registered nodes
ReplicaSum(nodes) ==
    IF nodes = {} THEN 0
    ELSE LET n == CHOOSE x \in nodes : TRUE
         IN n[2] + ReplicaSum(nodes \ {n})

\* C22: after any sequence of add_node and remove_node calls the ring holds
\* exactly the vnodes of the registered nodes: virtual_node_count() is the
\* sum of their replica counts, every ring entry maps to a registered node,
\* and remove_node(id) removes the replicas of id and of no other node.
C22_RingHoldsRegisteredVnodes ==
    /\ virtual_node_count(roots) = ReplicaSum(roots.nodes)
    /\ \A e \in roots.ring : \E n \in roots.nodes : n[1] = e[2]
    /\ (resp.op = "remove" /\ resp.ret = Some(TRUE)) =>
           roots.ring = {e \in resp.before.ring : e[2] /= resp.name}

\* C23: get_node(key) returns the owner of the smallest vnode hash >= H(key),
\* or of the smallest vnode hash overall when there is none; it returns None
\* when the ring is empty and a node name whenever is_empty() is false.
C23_GetNodeFindsSuccessor ==
    resp.op = "get" =>
        /\ roots.ring = {} => resp.ret = None
        /\ roots.ring /= {} =>
              \E e \in roots.ring :
                 /\ resp.ret = Some(e[2])
                 /\ \/ /\ e[1] >= hash(resp.key)
                       /\ \A o \in roots.ring :
                             o[1] >= hash(resp.key) => e[1] <= o[1]
                    \/ /\ \A o \in roots.ring : o[1] < hash(resp.key)
                       /\ \A o \in roots.ring : e[1] <= o[1]
        /\ ~is_empty(roots) => IsSome(resp.ret)


\* C24: after any sequence of add and delete calls, query(e) returns a
\* Membership proof exactly when e is in the set and a NonMembership proof
\* otherwise, never fails, and the returned proof verifies against the
\* current acc_value; after a successful delete(e), query(e) returns
\* NonMembership.
C24_QueryMatchesTheSet ==
    /\ accLast.op = "query" =>
          /\ accLast.ok
          /\ accLast.membership
                <=> digest_to_prime_field(accLast.elem) \in acc.elements
          /\ accLast.verifies
    /\ (accLast.op = "delete" /\ accLast.ok) =>
          LET r == DynamicAccumulator_query(acc, accLast.elem)
          IN /\ r.ok
             /\ ~r.membership
             /\ \A pf \in r.proofs : verify_non_membership(acc, pf)

\* a NonMembership answer that verifies against a non-empty accumulator
C24_Witness ==
    /\ accLast.op = "query"
    /\ ~accLast.membership
    /\ accLast.verifies
    /\ acc.elements /= {}
    /\ digest_to_prime_field(accLast.elem) \notin acc.elements


-----------------------------------------------------------------------------
(* parse_boolean_expr over character strings. A character is a string of
   length one and an input a sequence of characters; the inputs are
   concatenations of the pieces below. *)

MaxPieces == 4
MaxCorePieces == 7

\* the pieces an input is made of, each with the tokens the grammar's
\* lexical rules give it: operators in several cases, identifiers (one of
\* them starting like an operator), parentheses, a character that is no
\* part of any token
Pieces == {<<" ", "a", " ">>, <<" ", "b", "1", " ">>, <<" ", "A", "N", "D", " ">>, <<" ", "a", "n", "d", " ">>, <<" ", "o", "R", " ">>, <<" ", "N", "o", "t", " ">>, <<" ", "n", "o", "t", "a", " ">>, <<"(">>, <<")">>, <<"&">>}
CorePieces == {<<" ", "a", " ">>, <<" ", "A", "N", "D", " ">>, <<" ", "o", "R", " ">>, <<"(">>, <<")">>}

RECURSIVE Flatten(_)
Flatten(pieces) ==
    IF pieces = <<>> THEN <<>> ELSE Head(pieces) \o Flatten(Tail(pieces))

LowerLetters == <<"a", "b", "d", "n", "o", "r", "t">>
UpperLetters == <<"A", "B", "D", "N", "O", "R", "T">>
Digits == {"1"}

\* a mapping to upper case that leaves every character as it is
KeepCase(ch) == ch

\* char::is_whitespace, is_alphabetic, is_alphanumeric, to_uppercase
is_whitespace(ch) == ch = " "
is_alphabetic(ch) == ch \in Range(LowerLetters) \cup Range(UpperLetters)
is_alphanumeric(ch) == is_alphabetic(ch) \/ ch \in Digits
to_uppercase(ch) ==
    IF ch \in Range(LowerLetters)
    THEN UpperLetters[CHOOSE i \in DOMAIN LowerLetters : LowerLetters[i] = ch]
    ELSE ch

\* positions are 1-based: pos = Len(input) + 1 is the end of the input
RECURSIVE skip_whitespace(_, _)
\* Lexer::skip_whitespace: the position after the white space at pos
skip_whitespace(input, pos) ==
    IF pos <= Len(input) /\ is_whitespace(input[pos])
    THEN skip_whitespace(input, pos + 1)
    ELSE pos

RECURSIVE read_identifier(_, _)
\* Lexer::read_identifier: the position after the identifier that starts at
\* pos
read_identifier(input, pos) ==
    IF pos <= Len(input) /\ (is_alphanumeric(input[pos]) \/ input[pos] \in {"_", "-"})
    THEN read_identifier(input, pos + 1)
    ELSE pos

Eof == <<"Eof">>

\* the token of an identifier that starts with a letter or '_'
WordToken(ident) ==
    LET upper == [i \in DOMAIN ident |-> to_uppercase(ident[i])]
    IN CASE upper = <<"A", "N", "D">> -> <<"And">>
         [] upper = <<"O", "R">> -> <<"Or">>
         [] upper = <<"N", "O", "T">> -> <<"Not">>
         [] OTHER -> <<"Keyword", ident>>

RECURSIVE next_token(_, _)
\* Lexer::next_token: [token, pos]
next_token(input, pos) ==
    LET At(p) ==
          IF p > Len(input) THEN [token |-> Eof, pos |-> p]
          ELSE IF input[p] = "(" THEN [token |-> <<"LeftParen">>, pos |-> p + 1]
          ELSE IF input[p] = ")" THEN [token |-> <<"RightParen">>, pos |-> p + 1]
          ELSE IF is_alphabetic(input[p]) \/ input[p] = "_"
          THEN [token |-> WordToken(SubSeq(input, p, read_identifier(input, p) - 1)),
                pos |-> read_identifier(input, p)]
          ELSE IF read_identifier(input, p) = p
          THEN next_token(input, p + 1)
          ELSE [token |-> <<"Keyword", SubSeq(input, p, read_identifier(input, p) - 1)>>,
                pos |-> read_identifier(input, p)]
    IN At(skip_whitespace(input, pos))

RECURSIVE Tokens(_, _)
\* Parser::new: the tokens of the input, Eof last
Tokens(input, pos) ==
    LET Rest(t) ==
          IF t.token = Eof THEN <<Eof>> ELSE <<t.token>> \o Tokens(input, t.pos)
    IN Rest(next_token(input, pos))

\* Parser::advance
advance(tokens, pos) == IF pos < Len(tokens) THEN pos + 1 ELSE pos

ParseErr == [ok |-> FALSE, expr |-> <<>>, pos |-> 0]

RECURSIVE parse_expression(_, _), parse_term(_, _), parse_factor(_, _), OrTerms(_, _, _), AndFactors(_, _, _)

\* the loop of parse_expression: (OR Term)*
OrTerms(tokens, left, pos) ==
    LET Then(r) ==
          IF r.ok THEN OrTerms(tokens, <<"or", left, r.expr>>, r.pos) ELSE r
    IN IF tokens[pos] = <<"Or">>
       THEN Then(parse_term(tokens, advance(tokens, pos)))
       ELSE [ok |-> TRUE, expr |-> left, pos |-> pos]

\* Parser::parse_expression
parse_expression(tokens, pos) ==
    LET Then(r) == IF r.ok THEN OrTerms(tokens, r.expr, r.pos) ELSE r
    IN Then(parse_term(tokens, pos))

\* the loop of parse_term: (AND Factor)*
AndFactors(tokens, left, pos) ==
    LET Then(r) ==
          IF r.ok THEN AndFactors(tokens, <<"and", left, r.expr>>, r.pos) ELSE r
    IN IF tokens[pos] = <<"And">>
       THEN Then(parse_factor(tokens, advance(tokens, pos)))
       ELSE [ok |-> TRUE, expr |-> left, pos |-> pos]

\* Parser::parse_term
parse_term(tokens, pos) ==
    LET Then(r) == IF r.ok THEN AndFactors(tokens, r.expr, r.pos) ELSE r
    IN Then(parse_factor(tokens, pos))

\* Parser::parse_factor, with Parser::expect(RightParen)
parse_factor(tokens, pos) ==
    LET Negated(r) == IF r.ok THEN [r EXCEPT !.expr = <<"not", r.expr>>] ELSE r
        Closed(r) ==
          IF ~r.ok THEN r
          ELSE IF tokens[r.pos] = <<"RightParen">>
          THEN [r EXCEPT !.pos = advance(tokens, r.pos)]
          ELSE ParseErr
    IN CASE tokens[pos][1] = "Not" ->
              Negated(parse_factor(tokens, advance(tokens, pos)))
         [] tokens[pos][1] = "Keyword" ->
              [ok |-> TRUE, expr |-> <<"kw", tokens[pos][2]>>,
               pos |-> advance(tokens, pos)]
         [] tokens[pos][1] = "LeftParen" ->
              Closed(parse_expression(tokens, advance(tokens, pos)))
         [] OTHER -> ParseErr

\* Parser::parse
parse(tokens) ==
    LET Whole(r) ==
          IF r.ok /\ tokens[r.pos] = Eof
          THEN [ok |-> TRUE, expr |-> r.expr]
          ELSE [ok |-> FALSE, expr |-> <<>>]
    IN Whole(parse_expression(tokens, 1))

parse_boolean_expr(input) == parse(Tokens(input, 1))

PieceSeqs ==
    UNION {[1..n -> Pieces] : n \in 0..MaxPieces} \cup UNION {[1..n -> CorePieces] : n \in 0..MaxCorePieces}

InitParse ==
    /\ \E ps \in PieceSeqs : last = [op |-> "input", pieces |-> ps, input |-> Flatten(ps), result |-> [ok |-> FALSE, expr |-> <<>>]]
    /\ hist = 0
    /\ NoTrie /\ NoMirror /\ NoAcc /\ NoMgr

Parse ==
    /\ last.op = "input"
    /\ last' = [last EXCEPT !.op = "parse", !.result = parse_boolean_expr(last.input)]
    /\ UNCHANGED <<mpt, db, mirror, mdb, hist, acc, accLast, stor, roots, resp>>

NextParse == Parse

SpecParse == InitParse /\ [][NextParse]_vars

\* the tokens the grammar's lexical rules give a piece
PieceTokens(piece) ==
    CASE piece \in {<<" ", "A", "N", "D", " ">>, <<" ", "a", "n", "d", " ">>} -> <<<<"AND">>>>
      [] piece = <<" ", "o", "R", " ">> -> <<<<"OR">>>>
      [] piece = <<" ", "N", "o", "t", " ">> -> <<<<"NOT">>>>
      [] piece = <<"(">> -> <<<<"(">>>>
      [] piece = <<")">> -> <<<<")">>>>
      [] piece = <<"&">> -> <<>>
      [] OTHER -> <<<<"IDENT", SubSeq(piece, 2, Len(piece) - 1)>>>>

RECURSIVE GrammarTokens(_)
GrammarTokens(pieces) ==
    IF pieces = <<>> THEN <<>>
    ELSE PieceTokens(Head(pieces)) \o GrammarTokens(Tail(pieces))

RECURSIVE ExprTrees(_, _, _), TermTrees(_, _, _), FactorTrees(_, _, _)
\* the trees of t[i..j] as an expr, a term and a factor of the grammar
\* expr := expr OR term | term, term := term AND factor | factor,
\* factor := NOT factor | IDENT | "(" expr ")"
ExprTrees(t, i, j) ==
    TermTrees(t, i, j) \cup UNION {{<<"or", l, r>> : l \in ExprTrees(t, i, k - 1), r \in TermTrees(t, k + 1, j)} : k \in {x \in (i + 1)..(j - 1) : t[x] = <<"OR">>}}

TermTrees(t, i, j) ==
    FactorTrees(t, i, j) \cup UNION {{<<"and", l, r>> : l \in TermTrees(t, i, k - 1), r \in FactorTrees(t, k + 1, j)} : k \in {x \in (i + 1)..(j - 1) : t[x] = <<"AND">>}}

FactorTrees(t, i, j) ==
    IF i > j THEN {}
    ELSE IF t[i] = <<"NOT">> THEN {<<"not", f>> : f \in FactorTrees(t, i + 1, j)}
    ELSE IF t[i] = <<"(">> THEN (IF i < j /\ t[j] = <<")">> THEN ExprTrees(t, i + 1, j - 1) ELSE {})
    ELSE IF i = j /\ t[i][1] = "IDENT" THEN {<<"kw", t[i][2]>>}
    ELSE {}

GrammarTrees(pieces) == ExprTrees(GrammarTokens(pieces), 1, Len(GrammarTokens(pieces)))

\* C25: parse_boolean_expr returns the tree the grammar gives the input
\* (AND binds tighter than OR, both left-associative, NOT applies to the
\* factor after it, parentheses override, operators in any case), and Err
\* when the grammar gives it none (unbalanced parenthesis, missing operand,
\* tokens left over).
C25_ParseFollowsGrammar ==
    last.op = "parse" =>
       /\ last.result.ok => GrammarTrees(last.pieces) = {last.result.expr}
       /\ ~last.result.ok => GrammarTrees(last.pieces) = {}

\* "( a oR a ) AND a" parses to And(Or(a, a), a)
C25_Witness ==
    /\ last.op = "parse"
    /\ last.pieces = <<<<"(">>, <<" ", "a", " ">>, <<" ", "o", "R", " ">>, <<" ", "a", " ">>, <<")">>, <<" ", "A", "N", "D", " ">>, <<" ", "a", " ">>>>
    /\ last.result = [ok |-> TRUE, expr |-> <<"and", <<"or", <<"kw", <<"a">>>>, <<"kw", <<"a">>>>>>, <<"kw", <<"a">>>>>>]


-----------------------------------------------------------------------------
(* Concurrent Add, Delete and Query RPCs on one storage node. Every client
   sends one request; a handler takes the RwLock of the ADS (`roots`), works
   on the ADS (`stor`) through the guard and drops the guard. A mutation
   through the guard is a load of the ADS followed by a store of the changed
   ADS. `hist` is the order in which the handlers got the lock. *)

NumClients == 3
Clients == 1..NumClients

ConcRequests == {[op |-> "add", keyword |-> <<107>>, fid |-> <<65, 97>>], [op |-> "add", keyword |-> <<107>>, fid |-> <<65, 98>>], [op |-> "delete", keyword |-> <<107>>, fid |-> <<65, 97>>], [op |-> "delete", keyword |-> <<107>>, fid |-> <<65, 98>>], [op |-> "query", keyword |-> <<107>>, fid |-> <<>>]}

Unlocked == [writer |-> 0, readers |-> {}]

\* a lock that can always be taken
AlwaysFree(lock) == TRUE

\* RwLock::write and RwLock::read return when the lock can be taken
CanWrite(lock) == lock.writer = 0 /\ lock.readers = {}
CanRead(lock) == lock.writer = 0

InitConc ==
    /\ stor = Storager_new
    /\ roots = Unlocked
    /\ \E reqs \in [Clients -> ConcRequests] : resp = [p \in Clients |-> [pc |-> "idle", req |-> reqs[p], local |-> Storager_new, rpc |-> RpcErr]]
    /\ hist = <<>>
    /\ last = Idle
    /\ NoTrie /\ NoMirror /\ NoAcc

\* self.ads.write().unwrap() and self.ads.read().unwrap(): the handler waits
\* for the lock; on a poisoned lock the unwrap panics and the RPC fails
ConcAcquire(p) ==
    /\ resp[p].pc = "idle"
    /\ IF resp[p].req.op = "query" THEN CanRead(roots) ELSE CanWrite(roots)
    /\ hist' = Append(hist, p)
    /\ IF stor.poisoned
       THEN /\ resp' = [resp EXCEPT ![p].pc = "done", ![p].rpc = RpcErr]
            /\ roots' = roots
       ELSE /\ resp' = [resp EXCEPT ![p].pc = "locked"]
            /\ roots' = IF resp[p].req.op = "query"
                        THEN [roots EXCEPT !.readers = @ \cup {p}]
                        ELSE [roots EXCEPT !.writer = p]
    /\ UNCHANGED <<mpt, db, last, mirror, mdb, acc, accLast, stor>>

\* ads.add / ads.delete through the write guard, first half: the ADS is read
ConcLoad(p) ==
    /\ resp[p].pc = "locked"
    /\ resp[p].req.op /= "query"
    /\ resp' = [resp EXCEPT ![p].pc = "loaded", ![p].local = stor]
    /\ UNCHANGED <<mpt, db, last, mirror, mdb, hist, acc, accLast, stor, roots>>

\* second half: the changed ADS is written and the response built; a panic
\* poisons the lock
ConcStore(p) ==
    /\ resp[p].pc = "loaded"
    /\ \E r \in {IF resp[p].req.op = "add"
                 THEN StoragerService_add(resp[p].local, resp[p].req.keyword, resp[p].req.fid)
                 ELSE StoragerService_delete(resp[p].local, resp[p].req.keyword, resp[p].req.fid)} :
          /\ stor' = r.s
          /\ resp' = [resp EXCEPT ![p].pc = "unlock", ![p].rpc = r.rpc]
    /\ UNCHANGED <<mpt, db, last, mirror, mdb, hist, acc, accLast, roots>>

\* ads.query through the read guard
ConcRead(p) ==
    /\ resp[p].pc = "locked"
    /\ resp[p].req.op = "query"
    /\ resp' = [resp EXCEPT ![p].pc = "unlock", ![p].rpc = StoragerService_query(stor, resp[p].req.keyword)]
    /\ UNCHANGED <<mpt, db, last, mirror, mdb, hist, acc, accLast, stor, roots>>

\* the guard is dropped at the end of the handler
ConcRelease(p) ==
    /\ resp[p].pc = "unlock"
    /\ roots' = [writer |-> IF roots.writer = p THEN 0 ELSE roots.writer, readers |-> roots.readers \ {p}]
    /\ resp' = [resp EXCEPT ![p].pc = "done"]
    /\ UNCHANGED <<mpt, db, last, mirror, mdb, hist, acc, accLast, stor>>

NextConc ==
    \/ \E p \in Clients : ConcAcquire(p)
    \/ \E p \in Clients : ConcLoad(p)
    \/ \E p \in Clients : ConcStore(p)
    \/ \E p \in Clients : ConcRead(p)
    \/ \E p \in Clients : ConcRelease(p)

SpecConc == InitConc /\ [][NextConc]_vars

RECURSIVE SeqRun(_, _)
\* the node and the last response after the handlers of `order` ran one
\* after the other, each as a whole
SeqRun(order, reqs) ==
    IF order = <<>> THEN [s |-> Storager_new, rpc |-> RpcErr]
    ELSE LET req == reqs[order[Len(order)]]
             Step(s) ==
               CASE req.op = "add" -> StoragerService_add(s, req.keyword, req.fid)
                 [] req.op = "delete" -> StoragerService_delete(s, req.keyword, req.fid)
                 [] OTHER -> [s |-> s, rpc |-> StoragerService_query(s, req.keyword)]
         IN Step(SeqRun(SubSeq(order, 1, Len(order) - 1), reqs).s)

\* no handler is in the middle of a mutation
Settled == \A p \in Clients : resp[p].pc \notin {"locked", "loaded"} \/ resp[p].req.op = "query"

\* C26: concurrent Add, Delete and Query RPCs on one node are serializable:
\* whenever no mutation is in progress the node's state is the state after
\* running the handlers that got the lock one after the other in that
\* order, and every response (a Query's included) is the response of that
\* sequential run.
C26_RpcsAreSerializable ==
    LET reqs == [p \in Clients |-> resp[p].req]
    IN /\ Settled => stor = SeqRun(hist, reqs).s
       /\ \A i \in DOMAIN hist :
             resp[hist[i]].pc \in {"unlock", "done"} =>
                resp[hist[i]].rpc = SeqRun(SubSeq(hist, 1, i), reqs).rpc

\* two adds of different fids and a query that saw exactly one of them, all
\* three answered
C26_Witness ==
    /\ \A p \in Clients : resp[p].pc = "done"
    /\ \E p, q \in Clients : /\ resp[p].req.op = "add" /\ resp[q].req.op = "add"
                             /\ resp[p].req.fid /= resp[q].req.fid
    /\ \E p \in Clients : /\ resp[p].req.op = "query"
                          /\ resp[p].rpc.ok
                          /\ Len(resp[p].rpc.fids) = 1
    /\ Len(Get(stor.ads[<<107>>]).fids) = 2


-----------------------------------------------------------------------------
(* An MPT restored from the database. `mpt` is built by primary inserts and
   persisted into `db`; `mirror` is the MPT restore_from_db builds from `db`,
   and the operations that follow act on `mirror` with the same `db`. *)

MaxBuildOps == 2
MaxLazyOps == 2

InitLazy ==
    /\ mpt = MPT_new /\ db = EmptyDb
    /\ mirror = MPT_new /\ mdb = EmptyDb
    /\ last = [Idle EXCEPT !.arg = <<>>]
    /\ hist = [n |-> 0, phase |-> "build"]
    /\ NoAcc /\ NoMgr

\* insert(k, v) on the MPT that is persisted afterwards
LBuild(k, v) ==
    /\ hist.phase = "build"
    /\ hist.n < MaxBuildOps
    /\ \E r \in {MPT_insert(mpt, db, k, v, TRUE, FALSE)} :
          /\ r.st = "ok"
          /\ mpt' = r.mpt /\ db' = r.db
          /\ last' = [Idle EXCEPT !.op = "insert", !.key = k, !.arg = <<>>]
    /\ hist' = [hist EXCEPT !.n = @ + 1]
    /\ UNCHANGED <<mirror, mdb, acc, accLast, stor, roots, resp>>

\* batch_fix and persist_to_db, then restore_from_db on the same database
LRestore ==
    /\ hist.phase = "build"
    /\ \E f \in {batch_fix(mpt, db)} :
        \E r \in {persist_to_db(f.mpt, f.db)} :
         \E m \in {restore_from_db(r.db)} :
          /\ m.st = "ok"
          /\ mpt' = r.mpt /\ db' = r.db
          /\ mirror' = m.mpt
    /\ last' = [Idle EXCEPT !.op = "restore", !.arg = <<>>]
    /\ hist' = [n |-> 0, phase |-> "restored"]
    /\ UNCHANGED <<mdb, acc, accLast, stor, roots, resp>>

\* what the restored MPT answers for every key
Persisted == [k \in Keys |-> Answer(mirror, db, k)]

\* query_by_key(k) on the restored MPT: the nodes on the path are loaded
LQuery(k) ==
    /\ hist.phase = "restored"
    /\ hist.n < MaxLazyOps
    /\ last.st = "ok"
    /\ \E r \in {query_by_key(mirror, db, k)} :
          /\ r.st = "ok"
          /\ mirror' = r.mpt
          /\ last' = [Idle EXCEPT !.op = "query", !.key = k, !.value = r.value, !.arg = <<>>]
    /\ hist' = [hist EXCEPT !.n = @ + 1]
    /\ UNCHANGED <<mpt, db, mdb, acc, accLast, stor, roots, resp>>

\* insert(k, v) on the restored MPT; `arg` keeps the answers before it
LInsert(k, v) ==
    /\ hist.phase = "restored"
    /\ hist.n < MaxLazyOps
    /\ last.st = "ok"
    /\ \E r \in {MPT_insert(mirror, db, k, v, TRUE, FALSE)} :
          /\ mirror' = r.mpt /\ db' = r.db
          /\ last' = [Idle EXCEPT !.op = "linsert", !.key = k, !.value = v, !.arg = Persisted, !.st = r.st]
    /\ hist' = [hist EXCEPT !.n = @ + 1]
    /\ UNCHANGED <<mpt, mdb, acc, accLast, stor, roots, resp>>

\* delete(k) on the restored MPT
LDelete(k) ==
    /\ hist.phase = "restored"
    /\ hist.n < MaxLazyOps
    /\ last.st = "ok"
    /\ \E r \in {MPT_delete(mirror, k)} :
          /\ mirror' = r.mpt
          /\ last' = [Idle EXCEPT !.op = "ldelete", !.key = k, !.value = IF IsSome(r.deleted) THEN Get(r.deleted) ELSE <<>>, !.arg = Persisted]
    /\ hist' = [hist EXCEPT !.n = @ + 1]
    /\ UNCHANGED <<mpt, db, mdb, acc, accLast, stor, roots, resp>>

NextLazy ==
    \/ \E k \in Keys : LBuild(k, <<"x">>)
    \/ LRestore
    \/ \E k \in Keys : LQuery(k)
    \/ \E k \in Keys, v \in Values : LInsert(k, v)
    \/ \E k \in Keys : LDelete(k)

SpecLazy == InitLazy /\ [][NextLazy]_vars

\* C27: on a restored MPT, an insert or delete of one key leaves every
\* other key that was retrievable before it retrievable with the same
\* value, whether or not the nodes on its path were loaded already.
C27_RestoredKeysSurvive ==
    (last.op \in {"linsert", "ldelete"} /\ last.st = "ok") =>
       \A k \in Keys \ {last.key} :
          last.arg[k][2] => Answer(mirror, db, k) = last.arg[k]


\* C28: after delete(k) of a stored key the root hash differs from the root
\* hash before the delete, and every remaining key's query result verifies
\* against it.
C28_DeleteUpdatesRootHash ==
    (last.op = "delete" /\ IsSome(last.value)) =>
        /\ mpt.root_hash /= last.arg.before.root_hash
        /\ \A k \in Keys \ {last.key} :
              LET q == query_by_key(mpt, db, k)
              IN (q.st = "ok" /\ q.proof.is_exist) =>
                     verify_query_result(q.mpt, q.value, q.proof)


\* C29: MPT::insert returns Ok or Err and never panics, for any key on any
\* tree reachable by inserts.
C29_InsertNeverPanics ==
    last.op = "insert" => last.st \in {"ok", "err"}


\* the request at position i of `hist` is a Delete of a pair that is not
\* stored when it runs: the keyword is present, the fid is not in its list
DeleteOfAbsentPair(i, reqs) ==
    LET req == reqs[hist[i]]
        s == SeqRun(SubSeq(hist, 1, i - 1), reqs).s
    IN /\ req.op = "delete"
       /\ ~s.poisoned
       /\ IsSome(s.ads[req.keyword])
       /\ \A x \in DOMAIN Get(s.ads[req.keyword]).fids : Get(s.ads[req.keyword]).fids[x] /= req.fid

\* C30: a Delete(keyword, fid) for a pair that is not stored (keyword
\* present, fid absent) reports a failure to the caller, leaves the node's
\* ADS unchanged, and the node answers the requests that come after it.
C30_FailedDeleteIsHarmless ==
    LET reqs == [p \in Clients |-> resp[p].req]
    IN \A i \in DOMAIN hist :
          (DeleteOfAbsentPair(i, reqs) /\ resp[hist[i]].pc = "done") =>
             /\ ~resp[hist[i]].rpc.ok
             /\ SeqRun(SubSeq(hist, 1, i), reqs).s.ads = SeqRun(SubSeq(hist, 1, i - 1), reqs).s.ads
             /\ \A j \in DOMAIN hist :
                   (j > i /\ resp[hist[j]].pc = "done") => resp[hist[j]].rpc.ok


-----------------------------------------------------------------------------
(* Deferred deletion on the secondary index: deletes and adds of            *)
(* (SecKey, SecValue), with secondary adds of other keys in between         *)

MaxDeferOps == 4
DeferOthers == {<<97>>, <<98, 52>>, <<98, 53>>}

RECURSIVE PendingInFull(_, _, _), PendingInShort(_, _, _)
\* the deferred deletions of (kp, v) recorded in the to_del_maps of a
\* branch and of the nodes below it
PendingInFull(fn, kp, v) ==
    LET below == [i \in Nibbles |-> IF IsSome(fn.children[i]) THEN PendingInShort(Get(fn.children[i]), kp, v) ELSE 0]
        Sum[i \in 0..16] == IF i = 0 THEN 0 ELSE Sum[i - 1] + below[i - 1]
    IN DelCount(fn.to_del_map, kp, v) + Sum[16]

PendingInShort(sn, kp, v) ==
    DelCount(sn.to_del_map, kp, v) + (IF IsSome(sn.next_node) THEN PendingInFull(Get(sn.next_node), kp, v) ELSE 0)

TotalPending(m) ==
    IF IsNone(m.root) THEN 0
    ELSE PendingInFull(Get(m.root), key_to_hex_path(SecKey), SecValue)

\* the comma-separated value stored under SecKey, as its tokens
SecTokens(m, d) ==
    LET value == query_by_key(m, d, SecKey).value
    IN IF value = <<>> THEN <<>> ELSE Split(value)

InitDefer ==
    /\ mpt = MPT_new /\ db = EmptyDb
    /\ last = [Idle EXCEPT !.arg = [before |-> <<>>, pending |-> 0, owed |-> 0]]
    /\ hist = [n |-> 0, owed |-> 0]
    /\ NoMirror /\ NoAcc /\ NoMgr

DeferResult(op, k, v, r) ==
    [op |-> op, key |-> k, value |-> v, arg |-> [before |-> SecTokens(mpt, db), pending |-> TotalPending(mpt), owed |-> hist.owed], flag |-> r.flag, accepts |-> {}, st |-> r.st]

\* insert(KVPair(SecKey, SecValue), is_primary = false, flag = true); `owed`
\* counts the deletions that were recorded in a to_del_map
FDelete ==
    /\ hist.n < MaxDeferOps
    /\ last.st = "ok"
    /\ \E r \in {MPT_insert(mpt, db, SecKey, SecValue, FALSE, TRUE)} :
          /\ mpt' = r.mpt /\ db' = r.db
          /\ last' = DeferResult("del", SecKey, SecValue, r)
          /\ hist' = [n |-> hist.n + 1, owed |-> IF r.st = "ok" /\ TotalPending(r.mpt) = TotalPending(mpt) + 1 THEN hist.owed + 1 ELSE hist.owed]
    /\ UNCHANGED <<mirror, mdb, acc, accLast, stor, roots, resp>>

\* insert(KVPair(SecKey, SecValue), is_primary = false, flag = false)
FAdd ==
    /\ hist.n < MaxDeferOps
    /\ last.st = "ok"
    /\ \E r \in {MPT_insert(mpt, db, SecKey, SecValue, FALSE, FALSE)} :
          /\ mpt' = r.mpt /\ db' = r.db
          /\ last' = DeferResult("add", SecKey, SecValue, r)
          /\ hist' = [n |-> hist.n + 1, owed |-> IF hist.owed > 0 THEN hist.owed - 1 ELSE 0]
    /\ UNCHANGED <<mirror, mdb, acc, accLast, stor, roots, resp>>

\* a secondary add of another key
FOther(k) ==
    /\ hist.n < MaxDeferOps
    /\ last.st = "ok"
    /\ \E r \in {MPT_insert(mpt, db, k, <<"y">>, FALSE, FALSE)} :
          /\ mpt' = r.mpt /\ db' = r.db
          /\ last' = DeferResult("other", k, <<"y">>, r)
          /\ hist' = [hist EXCEPT !.n = @ + 1]
    /\ UNCHANGED <<mirror, mdb, acc, accLast, stor, roots, resp>>

NextDefer ==
    \/ FDelete
    \/ FAdd
    \/ \E k \in DeferOthers : FOther(k)

SpecDefer == InitDefer /\ [][NextDefer]_vars

\* C31: once a secondary delete of (k, v) has been recorded in a
\* to_del_map, the next secondary add of (k, v) cancels it: the tokens
\* stored for k do not change and the recorded count decreases by one,
\* whichever other keys were inserted in between.
C31_DeferredDeleteIsCancelled ==
    (last.op = "add" /\ last.st = "ok" /\ last.arg.owed > 0) =>
        /\ SecTokens(mpt, db) = last.arg.before
        /\ TotalPending(mpt) = last.arg.pending - 1


RECURSIVE CleanFull(_), CleanShort(_)
\* a branch and the nodes loaded below it are clean and their hashes are up
\* to date
CleanFull(fn) ==
    /\ ~fn.is_dirty
    /\ fn.node_hash = FullNode_hash(fn)
    /\ \A i \in Nibbles :
          IsSome(fn.children[i]) =>
             /\ fn.children_hash[i] = Some(Get(fn.children[i]).node_hash)
             /\ CleanShort(Get(fn.children[i]))

CleanShort(sn) ==
    /\ ~sn.is_dirty
    /\ sn.node_hash = ShortNode_hash(sn)
    /\ IsSome(sn.next_node) =>
          /\ sn.next_node_hash = Get(sn.next_node).node_hash
          /\ CleanFull(Get(sn.next_node))

\* C32: after batch_fix, whatever inserts and deletes preceded it, no
\* reachable node is dirty, every node_hash is the hash of the node's
\* content, every children_hash[i] and next_node_hash is the hash of the
\* node it refers to, and root_hash is the root node's hash.
C32_BatchFixCleansTheTree ==
    (last.op = "batch_fix" /\ IsSome(mpt.root)) =>
        /\ CleanFull(Get(mpt.root))
        /\ mpt.root_hash = Get(mpt.root).node_hash


RECURSIVE NoEmptyBranch(_)
\* no branch at or below fn is without children and without a value
NoEmptyBranch(fn) ==
    /\ IsSome(fn.value) \/ \E i \in Nibbles : IsSome(fn.children[i]) \/ IsSome(fn.children_hash[i])
    /\ \A i \in Nibbles :
          (IsSome(fn.children[i]) /\ IsSome(Get(fn.children[i]).next_node)) =>
              NoEmptyBranch(Get(Get(fn.children[i]).next_node))

\* some key is stored
StoresAKey == \E k \in Keys : Answer(mpt, db, k)[2]

\* C33: after every completed MPT operation no reachable branch, the root
\* included, has neither children nor a value, and root_hash is the
\* all-zero hash exactly when the MPT stores no key.
C33_NoEmptyBranchLeft ==
    (last.op /= "none" /\ last.st = "ok") =>
        /\ IsSome(mpt.root) => NoEmptyBranch(Get(mpt.root))
        /\ (mpt.root_hash = ZeroHash) <=> ~StoresAKey


\* the entry of keyword k is well-formed: a non-empty duplicate-free fid
\* list, the accumulator of exactly the listed fids' elements, and a query
\* answered by a membership proof that verifies
EntryWellFormed(ads, k) ==
    LET entry == Get(ads[k])
        q == DynamicAccumulator_query(entry.acc, fid_to_element(k, entry.fids[1]))
    IN /\ entry.fids /= <<>>
       /\ \A i, j \in DOMAIN entry.fids : entry.fids[i] = entry.fids[j] => i = j
       /\ entry.acc.elements = {digest_to_prime_field(fid_to_element(k, entry.fids[i])) : i \in DOMAIN entry.fids}
       /\ q.membership
       /\ q.ok
       /\ MembershipProof_verify(q.proof, entry.acc.acc_value)

\* C34: after any sequence of Add and Delete RPCs every keyword entry of
\* CryptoAccumulatorAds has a non-empty, duplicate-free fid list and an
\* accumulator whose element set is exactly the set of elements of the
\* listed fids, so Query(k) yields a Membership proof with valid = 1.
C34_AccumulatorEntriesWellFormed ==
    stor.variant = "acc" =>
       \A k \in AdsKeywords : IsSome(stor.acc[k]) => EntryWellFormed(stor.acc, k)


-----------------------------------------------------------------------------
(* The manager serving several requests at once.  Each handler is an async *)
(* task: it sends one storager RPC per keyword and awaits the response, so *)
(* between the storage node's execution of a mutation and the handler's    *)
(* update_root_hash for it other handlers may run.                         *)

NumCalls == 2
MaxRaceOps == 3
Calls == 1..NumCalls
RaceFids == {<<65, 97>>, <<65, 98>>}

CallIdle == [pc |-> "idle", op |-> "none", fid |-> <<>>, todo |-> <<>>,
             strict |-> FALSE, node |-> 0, rpc |-> RpcErr, st |-> "ok",
             success |-> FALSE]

\* the storager calls of a handler in order: deletes, then adds
Calling(kind, keywords) ==
    [i \in 1..Len(keywords) |-> <<kind, keywords[i]>>]

InitRace ==
    /\ stor = [n \in Nodes |-> Storager_new]
    /\ roots = Manager_new.root_hashes
    /\ resp = [c \in Calls |-> CallIdle]
    /\ hist = [n |-> 0, last |-> [n \in Nodes |-> None]]
    /\ mpt = MPT_new /\ db = EmptyDb /\ last = Idle
    /\ NoMirror /\ NoAcc

\* a handler that has read the request and deduplicated the keywords
Begun(op, fid, todo, strict) ==
    [CallIdle EXCEPT !.op = op, !.fid = fid, !.todo = todo,
        !.strict = strict,
        !.pc = IF todo = <<>> THEN "done" ELSE "run",
        !.success = (todo = <<>>) /\ ~strict]

\* ManagerService::add up to its first await
RaceAdd(c, fid, keywords) ==
    /\ hist.n < MaxRaceOps
    /\ resp[c].pc \in {"idle", "done"}
    /\ resp' = [resp EXCEPT ![c] =
                   Begun("add", fid, Calling("add", keywords), TRUE)]
    /\ hist' = [hist EXCEPT !.n = hist.n + 1]
    /\ UNCHANGED <<stor, roots, mpt, db, last, mirror, mdb, accVars>>

\* ManagerService::delete up to its first await
RaceDelete(c, fid, keywords) ==
    /\ hist.n < MaxRaceOps
    /\ resp[c].pc \in {"idle", "done"}
    /\ resp' = [resp EXCEPT ![c] =
                   Begun("delete", fid, Calling("delete", keywords), TRUE)]
    /\ hist' = [hist EXCEPT !.n = hist.n + 1]
    /\ UNCHANGED <<stor, roots, mpt, db, last, mirror, mdb, accVars>>

\* ManagerService::update up to its first await
RaceUpdate(c, fid, old_keywords, new_keywords) ==
    /\ hist.n < MaxRaceOps
    /\ resp[c].pc \in {"idle", "done"}
    /\ resp' = [resp EXCEPT ![c] =
                   Begun("update", fid,
                         Calling("delete", old_keywords)
                             \o Calling("add", new_keywords), FALSE)]
    /\ hist' = [hist EXCEPT !.n = hist.n + 1]
    /\ UNCHANGED <<stor, roots, mpt, db, last, mirror, mdb, accVars>>

\* the storage node executes the handler's next StoragerAdd or
\* StoragerDelete under its write lock; the response is on its way.
\* hist.last records the root returned by the node's last verified mutation
RaceCall(c) ==
    /\ resp[c].pc = "run"
    /\ \E kind \in {resp[c].todo[1][1]} : \E keyword \in {resp[c].todo[1][2]} :
       \E node \in {Get(get_storager_for_keyword(keyword))} :
       \E call \in {IF kind = "add"
                    THEN StoragerService_add(stor[node], keyword, resp[c].fid)
                    ELSE StoragerService_delete(stor[node], keyword,
                                                resp[c].fid)} :
          /\ stor' = [stor EXCEPT ![node] = call.s]
          /\ resp' = [resp EXCEPT ![c].pc = "await", ![c].node = node,
                                  ![c].rpc = call.rpc]
          /\ hist' = IF call.rpc.ok
                        /\ verify_proof(call.rpc.proof, call.rpc.root_hash)
                     THEN [hist EXCEPT !.last[node] = Some(call.rpc.root_hash)]
                     ELSE hist
    /\ UNCHANGED <<roots, mpt, db, last, mirror, mdb, accVars>>

\* the handler resumes with the response: verify_proof, update_root_hash,
\* and the next keyword or the reply
RaceReply(c) ==
    /\ resp[c].pc = "await"
    /\ \E rpc \in {resp[c].rpc} :
       \E verified \in {rpc.ok /\ verify_proof(rpc.proof, rpc.root_hash)} :
       \E rest \in {Tail(resp[c].todo)} :
          /\ roots' = IF verified
                      THEN update_root_hash(roots, resp[c].node, rpc.root_hash)
                      ELSE roots
          /\ resp' = [resp EXCEPT ![c] =
                IF ~rpc.ok
                THEN [@ EXCEPT !.pc = "done", !.st = "err", !.success = FALSE]
                ELSE IF resp[c].strict /\ ~verified
                THEN [@ EXCEPT !.pc = "done", !.success = FALSE]
                ELSE IF rest = <<>>
                THEN [@ EXCEPT !.pc = "done", !.todo = rest, !.success = TRUE]
                ELSE [@ EXCEPT !.pc = "run", !.todo = rest]]
    /\ UNCHANGED <<stor, hist, mpt, db, last, mirror, mdb, accVars>>

NextRace ==
    \/ \E c \in Calls : \E f \in RaceFids : \E ks \in ShortLists :
           RaceAdd(c, f, ks)
    \/ \E c \in Calls : \E f \in RaceFids : \E ks \in ShortLists :
           RaceDelete(c, f, ks)
    \/ \E c \in Calls : \E f \in RaceFids :
       \E o \in ShortLists : \E n \in ShortLists : RaceUpdate(c, f, o, n)
    \/ \E c \in Calls : RaceCall(c)
    \/ \E c \in Calls : RaceReply(c)

SpecRace == InitRace /\ [][NextRace]_vars

\* no manager RPC is in flight
Quiescent == \A c \in Calls : resp[c].pc \in {"idle", "done"}

\* C35: whenever no manager RPC is in flight, roots[node_id] equals the root
\* digest returned by the mutation that the storage node executed last
\* among the verified mutations routed to it, for every interleaving of
\* concurrently handled Manager.Add/Delete/Update requests.
C35_RootCacheIsFresh ==
    Quiescent =>
        \A n \in Nodes : IsSome(hist.last[n]) => roots[n] = hist.last[n]


-----------------------------------------------------------------------------
(* Two MPTs receiving the same primary inserts in two orders               *)

MaxOrderLen == 4
\* the sets of at most MaxOrderLen pairs with distinct keys
PairSets ==
    {S \in SUBSET (Keys \X Values) :
        /\ Cardinality(S) <= MaxOrderLen
        /\ \A p, q \in S : p[1] = q[1] => p = q}
\* the insertion orders of a set of pairs
OrdersOf(S) ==
    {o \in [1..Cardinality(S) -> S] : \A i, j \in DOMAIN o : o[i] = o[j] => i = j}

\* both MPTs are empty; hist holds the two orders and the inserts done
InitOrder ==
    /\ mpt = MPT_new /\ db = EmptyDb
    /\ mirror = MPT_new /\ mdb = EmptyDb
    /\ last = Idle
    /\ \E S \in PairSets : \E l \in OrdersOf(S) : \E r \in OrdersOf(S) :
          hist = [left |-> l, right |-> r, n |-> 0]
    /\ NoAcc /\ NoMgr

\* the next MPT::insert(KVPair(k, v), db, is_primary = true, flag = false)
\* of each order on its MPT; last.st is "panic" once an insert panicked,
\* last.accepts holds the outcome on each side
OrderInsert ==
    /\ hist.n < Len(hist.left)
    /\ last.st /= "panic"
    /\ \E p \in {hist.left[hist.n + 1]} : \E q \in {hist.right[hist.n + 1]} :
       \E l \in {MPT_insert(mpt, db, p[1], p[2], TRUE, FALSE)} :
       \E r \in {MPT_insert(mirror, mdb, q[1], q[2], TRUE, FALSE)} :
          /\ mpt' = l.mpt /\ db' = l.db
          /\ mirror' = r.mpt /\ mdb' = r.db
          /\ last' = [Idle EXCEPT !.op = "insert", !.key = p[1], !.arg = q[1],
                         !.accepts = {<<"left", l.st>>, <<"right", r.st>>},
                         !.st = IF "panic" \in {l.st, r.st} THEN "panic"
                                ELSE IF "err" \in {l.st, r.st} THEN "err"
                                ELSE "ok"]
          /\ hist' = [hist EXCEPT !.n = hist.n + 1]
    /\ UNCHANGED <<accVars, mgrVars>>

NextOrder == OrderInsert

SpecOrder == InitOrder /\ [][NextOrder]_vars

\* C36: two initially empty MPTs that receive the same set of distinct
\* (key, value) pairs as primary inserts in different orders end with the
\* same root hash.
C36_RootHashIsOrderIndependent ==
    (hist.n = Len(hist.left) /\ last.st /= "panic") =>
        mpt.root_hash = mirror.root_hash


-----------------------------------------------------------------------------
(* The router: the hash ring with the address of every storager            *)

MaxRouterOps == 4
Addrs == {"u0", "u1", "u2"}
RouterNames == {NodeName(i) : i \in 0..(NumStoragers + 1)}

\* HashMap::insert on storager_addrs, a set of <<name, addr>>
AddrInsert(addrs, node_name, addr) ==
    {p \in addrs : p[1] /= node_name} \cup {<<node_name, addr>>}

RECURSIVE RouterFill(_, _, _, _)
RouterFill(rt, storager_addrs, idx, virtual_nodes) ==
    IF idx >= Len(storager_addrs) THEN rt
    ELSE RouterFill(
             [hash_ring |-> add_node(rt.hash_ring, NodeName(idx), virtual_nodes),
              storager_addrs |-> AddrInsert(rt.storager_addrs, NodeName(idx),
                                            storager_addrs[idx + 1])],
             storager_addrs, idx + 1, virtual_nodes)

\* Router::new
Router_new(storager_addrs, virtual_nodes_per_storager) ==
    RouterFill([hash_ring |-> ConsistentHashRing_new, storager_addrs |-> {}],
               storager_addrs, 0, virtual_nodes_per_storager)

\* Router::add_storager: the name is numbered by the size of the address map
add_storager(rt, addr, virtual_nodes) ==
    LET idx == Cardinality(rt.storager_addrs)
        node_name == NodeName(idx)
    IN [hash_ring |-> add_node(rt.hash_ring, node_name, virtual_nodes),
        storager_addrs |-> AddrInsert(rt.storager_addrs, node_name, addr)]

\* Router::remove_storager
remove_storager(rt, node_name) ==
    [hash_ring |-> remove_node(rt.hash_ring, node_name),
     storager_addrs |-> {p \in rt.storager_addrs : p[1] /= node_name}]

\* Router::storager_count
storager_count(rt) == Cardinality(rt.storager_addrs)

RouterIdle == [op |-> "none", name |-> <<>>, addr |-> "", before |-> <<>>]

InitRouter ==
    /\ \E storager_addrs \in {<<>>, <<"u0">>, <<"u0", "u1">>} :
          roots = Router_new(storager_addrs, VirtualNodes)
    /\ resp = RouterIdle
    /\ hist = [n |-> 0]
    /\ stor = 0
    /\ NoTrie /\ last = Idle /\ NoMirror /\ NoAcc

\* router.add_storager(addr, virtual_nodes); resp.name is the name used
RouterAdd(addr, virtual_nodes) ==
    /\ hist.n < MaxRouterOps
    /\ roots' = add_storager(roots, addr, virtual_nodes)
    /\ resp' = [op |-> "add", name |-> NodeName(Cardinality(roots.storager_addrs)),
                addr |-> addr, before |-> <<roots>>]
    /\ hist' = [n |-> hist.n + 1]
    /\ UNCHANGED <<stor, mpt, db, last, mirror, mdb, accVars>>

\* router.remove_storager(node_name)
RouterRemove(node_name) ==
    /\ hist.n < MaxRouterOps
    /\ roots' = remove_storager(roots, node_name)
    /\ resp' = [op |-> "remove", name |-> node_name, addr |-> "",
                before |-> <<roots>>]
    /\ hist' = [n |-> hist.n + 1]
    /\ UNCHANGED <<stor, mpt, db, last, mirror, mdb, accVars>>

NextRouter ==
    \/ \E addr \in Addrs : \E vn \in 1..VirtualNodes : RouterAdd(addr, vn)
    \/ \E name \in RouterNames : RouterRemove(name)

SpecRouter == InitRouter /\ [][NextRouter]_vars

RouterRingNames(rt) == {n[1] : n \in rt.hash_ring.nodes}
RouterAddrNames(rt) == {p[1] : p \in rt.storager_addrs}

\* C37: after any sequence of add_storager and remove_storager calls the
\* set of node names in the hash ring equals the key set of the address
\* map; each add_storager call registers a new node under a name not
\* currently in use and increases storager_count() by one, and no existing
\* node's address is overwritten.
C37_RouterTopology ==
    /\ RouterRingNames(roots) = RouterAddrNames(roots)
    /\ resp.op = "add" =>
          /\ resp.name \notin RouterAddrNames(resp.before[1])
          /\ storager_count(roots) = storager_count(resp.before[1]) + 1
          /\ resp.before[1].storager_addrs \subseteq roots.storager_addrs


-----------------------------------------------------------------------------
(* NodeCache: two LRUs of nodes by hash, written back to the database on   *)
(* eviction.  An LRU is the sequence of its <<hash, node>> entries, the    *)
(* least recently used first.  Database calls and lock reads succeed.      *)

MaxCacheOps == 4
MaxCapacity == 2

\* LruCache::put: an entry of the same key is replaced and becomes the most
\* recent; a full cache drops its least recent entry
LruPut(lru, cap, k, v) ==
    IF \E i \in DOMAIN lru : lru[i][1] = k
    THEN Append(SelectSeq(lru, LAMBDA e : e[1] /= k), <<k, v>>)
    ELSE IF Len(lru) >= cap THEN Append(Tail(lru), <<k, v>>)
    ELSE Append(lru, <<k, v>>)

\* LruCache::get: the entry becomes the most recent
LruGet(lru, k) ==
    IF \E i \in DOMAIN lru : lru[i][1] = k
    THEN LET e == CHOOSE x \in {lru[i] : i \in DOMAIN lru} : x[1] = k
         IN Append(SelectSeq(lru, LAMBDA x : x[1] /= k), e)
    ELSE lru

\* NodeCache::new
NodeCache_new(short_node_capacity, full_node_capacity) ==
    [short_node_cache |-> <<>>, full_node_cache |-> <<>>,
     short_cap |-> short_node_capacity, full_cap |-> full_node_capacity]

\* insert_short_node with the eviction test `>` in place of `>=`
InsertShortNodeLate(c, node_hash, node, d) ==
    LET evict == Len(c.short_node_cache) > c.short_cap
        lru == IF evict THEN Tail(c.short_node_cache) ELSE c.short_node_cache
        d2 == IF evict
              THEN DbPut(d, c.short_node_cache[1][1],
                         ShortNode_serialize(c.short_node_cache[1][2]))
              ELSE d
    IN [cache |-> [c EXCEPT !.short_node_cache =
                                LruPut(lru, c.short_cap, node_hash, node)],
        db |-> d2]

\* NodeCache::insert_short_node: [cache, db]
insert_short_node(c, node_hash, node, d) ==
    LET evict == Len(c.short_node_cache) >= c.short_cap
        lru == IF evict THEN Tail(c.short_node_cache) ELSE c.short_node_cache
        d2 == IF evict
              THEN DbPut(d, c.short_node_cache[1][1],
                         ShortNode_serialize(c.short_node_cache[1][2]))
              ELSE d
    IN [cache |-> [c EXCEPT !.short_node_cache =
                                LruPut(lru, c.short_cap, node_hash, node)],
        db |-> d2]

\* NodeCache::insert_full_node: [cache, db]
insert_full_node(c, node_hash, node, d) ==
    LET evict == Len(c.full_node_cache) >= c.full_cap
        lru == IF evict THEN Tail(c.full_node_cache) ELSE c.full_node_cache
        d2 == IF evict
              THEN DbPut(d, c.full_node_cache[1][1],
                         FullNode_serialize(c.full_node_cache[1][2]))
              ELSE d
    IN [cache |-> [c EXCEPT !.full_node_cache =
                                LruPut(lru, c.full_cap, node_hash, node)],
        db |-> d2]

RECURSIVE FlushShort(_, _), FlushFull(_, _)
\* while let Some((hash, node)) = pop_lru() { db.put(hash, serialize) }
FlushShort(lru, d) ==
    IF lru = <<>> THEN d
    ELSE FlushShort(Tail(lru),
                    DbPut(d, lru[1][1], ShortNode_serialize(lru[1][2])))
FlushFull(lru, d) ==
    IF lru = <<>> THEN d
    ELSE FlushFull(Tail(lru),
                   DbPut(d, lru[1][1], FullNode_serialize(lru[1][2])))

\* NodeCache::purge: [cache, db]
purge(c, d) ==
    [cache |-> [c EXCEPT !.short_node_cache = <<>>,
                         !.full_node_cache = <<>>],
     db |-> FlushFull(c.full_node_cache, FlushShort(c.short_node_cache, d))]

\* the nodes offered to the cache: leaves and value-only branches
CacheShorts ==
    {ShortNode_new("", TRUE, <<>>, None, Some(v), EmptyDb).node : v \in Values}
CacheFulls == {FullNode_new(Some(v), EmptyDb).node : v \in Values}
ShortHashes == {n.node_hash : n \in CacheShorts}
FullHashes == {n.node_hash : n \in CacheFulls}

CacheIdle == [op |-> "none", hash |-> ZeroHash, before |-> <<>>]

InitCache ==
    /\ \E sc \in 1..MaxCapacity : \E fc \in 1..MaxCapacity :
          roots = NodeCache_new(sc, fc)
    /\ db = EmptyDb
    /\ resp = CacheIdle
    /\ hist = [n |-> 0]
    /\ mpt = MPT_new /\ stor = 0
    /\ last = Idle /\ NoMirror /\ NoAcc

\* cache.insert_short_node(node_hash, node, db); the node may have changed
\* since `node_hash` was computed
CacheInsertShort(node_hash, node) ==
    /\ hist.n < MaxCacheOps
    /\ \E r \in {insert_short_node(roots, node_hash, node, db)} :
          /\ roots' = r.cache
          /\ db' = r.db
    /\ resp' = [op |-> "insert_short", hash |-> node_hash, before |-> <<roots>>]
    /\ hist' = [n |-> hist.n + 1]
    /\ UNCHANGED <<stor, mpt, last, mirror, mdb, accVars>>

\* cache.insert_full_node(hash, node, db)
CacheInsertFull(node_hash, node) ==
    /\ hist.n < MaxCacheOps
    /\ \E r \in {insert_full_node(roots, node_hash, node, db)} :
          /\ roots' = r.cache
          /\ db' = r.db
    /\ resp' = [op |-> "insert_full", hash |-> node_hash, before |-> <<roots>>]
    /\ hist' = [n |-> hist.n + 1]
    /\ UNCHANGED <<stor, mpt, last, mirror, mdb, accVars>>

\* cache.get_short_node(hash)
CacheGetShort(node_hash) ==
    /\ hist.n < MaxCacheOps
    /\ roots' = [roots EXCEPT !.short_node_cache = LruGet(@, node_hash)]
    /\ resp' = [op |-> "get_short", hash |-> node_hash, before |-> <<roots>>]
    /\ hist' = [n |-> hist.n + 1]
    /\ UNCHANGED <<db, stor, mpt, last, mirror, mdb, accVars>>

\* cache.get_full_node(hash)
CacheGetFull(node_hash) ==
    /\ hist.n < MaxCacheOps
    /\ roots' = [roots EXCEPT !.full_node_cache = LruGet(@, node_hash)]
    /\ resp' = [op |-> "get_full", hash |-> node_hash, before |-> <<roots>>]
    /\ hist' = [n |-> hist.n + 1]
    /\ UNCHANGED <<db, stor, mpt, last, mirror, mdb, accVars>>

\* cache.purge(db)
CachePurge ==
    /\ hist.n < MaxCacheOps
    /\ \E r \in {purge(roots, db)} :
          /\ roots' = r.cache
          /\ db' = r.db
    /\ resp' = [op |-> "purge", hash |-> ZeroHash, before |-> <<roots>>]
    /\ hist' = [n |-> hist.n + 1]
    /\ UNCHANGED <<stor, mpt, last, mirror, mdb, accVars>>

NextCache ==
    \/ \E h \in ShortHashes : \E n \in CacheShorts : CacheInsertShort(h, n)
    \/ \E h \in FullHashes : \E n \in CacheFulls : CacheInsertFull(h, n)
    \/ \E h \in ShortHashes : CacheGetShort(h)
    \/ \E h \in FullHashes : CacheGetFull(h)
    \/ CachePurge

SpecCache == InitCache /\ [][NextCache]_vars

Entries(lru) == {lru[i] : i \in DOMAIN lru}
\* the entries whose hash has left the LRU
Departed(before, after) ==
    {e \in Entries(before) : \A i \in DOMAIN after : after[i][1] /= e[1]}
\* the database holds, under the entry's hash, a node cached under that hash
Flushed(e, c) ==
    /\ e[1] \in DOMAIN db
    /\ db[e[1]] \in
          {ShortNode_serialize(x[2]) :
               x \in {y \in Entries(c.short_node_cache) : y[1] = e[1]}}
          \cup {FullNode_serialize(x[2]) :
               x \in {y \in Entries(c.full_node_cache) : y[1] = e[1]}}

FrameKeys == {<<b>> : b \in 0..(RingSize - 1)}

\* C39: for every key, get_node(key) after add_node(n, r) is either
\* unchanged or equal to n; and get_node(key) after remove_node(n) is
\* unchanged for every key that was not mapped to n.
C39_MinimalDisruption ==
    /\ resp.op = "add" =>
          \A key \in FrameKeys :
              \/ get_node(roots, key) = get_node(resp.before, key)
              \/ get_node(roots, key) = Some(resp.name)
    /\ resp.op = "remove" =>
          \A key \in FrameKeys :
              get_node(resp.before, key) /= Some(resp.name) =>
                  get_node(roots, key) = get_node(resp.before, key)


-----------------------------------------------------------------------------
(* Manager.Update with the verification outcome of every storager response *)

MaxUpdOps == 2

RECURSIVE UpdateResponses(_, _, _)
\* verify_proof of the responses to the storager calls of a handler, in
\* order, up to the first failed RPC (FALSE)
UpdateResponses(s, fid, todo) ==
    IF todo = <<>> THEN <<>>
    ELSE LET keyword == todo[1][2]
             node == Get(get_storager_for_keyword(keyword))
             call == IF todo[1][1] = "add"
                     THEN StoragerService_add(s[node], keyword, fid)
                     ELSE StoragerService_delete(s[node], keyword, fid)
         IN IF ~call.rpc.ok THEN <<FALSE>>
            ELSE <<verify_proof(call.rpc.proof, call.rpc.root_hash)>>
                 \o UpdateResponses([s EXCEPT ![node] = call.s], fid,
                                    Tail(todo))

UpdAdd(fid, keywords) ==
    /\ hist.n < MaxUpdOps
    /\ \E o \in {ManagerService_add(stor, roots, fid, keywords)} :
       \E seen \in {UpdateResponses(stor, fid, Calling("add", keywords))} :
          /\ stor' = o.stor
          /\ roots' = o.roots
          /\ resp' = [MgrIdle EXCEPT !.op = "add", !.fid = fid,
                         !.keys = keywords, !.st = o.st,
                         !.success = o.success,
                         !.verified = \A i \in DOMAIN seen : seen[i]]
    /\ hist' = [hist EXCEPT !.n = hist.n + 1]
    /\ UNCHANGED <<mpt, db, last, mirror, mdb, accVars>>

UpdDelete(fid, keywords) ==
    /\ hist.n < MaxUpdOps
    /\ \E o \in {ManagerService_delete(stor, roots, fid, keywords)} :
       \E seen \in {UpdateResponses(stor, fid, Calling("delete", keywords))} :
          /\ stor' = o.stor
          /\ roots' = o.roots
          /\ resp' = [MgrIdle EXCEPT !.op = "delete", !.fid = fid,
                         !.keys = keywords, !.st = o.st,
                         !.success = o.success,
                         !.verified = \A i \in DOMAIN seen : seen[i]]
    /\ hist' = [hist EXCEPT !.n = hist.n + 1]
    /\ UNCHANGED <<mpt, db, last, mirror, mdb, accVars>>

\* resp.verified: every StoragerDelete and StoragerAdd response of the
\* update passed verify_proof
UpdUpdate(fid, old_keywords, new_keywords) ==
    /\ hist.n < MaxUpdOps
    /\ \E o \in {ManagerService_update(stor, roots, fid, old_keywords,
                                       new_keywords)} :
       \E seen \in {UpdateResponses(stor, fid,
                        Calling("delete", old_keywords)
                            \o Calling("add", new_keywords))} :
          /\ stor' = o.stor
          /\ roots' = o.roots
          /\ resp' = [MgrIdle EXCEPT !.op = "update", !.fid = fid,
                         !.keys = old_keywords \o new_keywords, !.st = o.st,
                         !.success = o.success,
                         !.verified = \A i \in DOMAIN seen : seen[i]]
    /\ hist' = [hist EXCEPT !.n = hist.n + 1]
    /\ UNCHANGED <<mpt, db, last, mirror, mdb, accVars>>

NextUpd ==
    \/ \E f \in Fids : \E ks \in KeywordLists : UpdAdd(f, ks)
    \/ \E f \in Fids : \E ks \in KeywordLists : UpdDelete(f, ks)
    \/ \E f \in Fids : \E o \in ShortLists : \E n \in ShortLists :
           UpdUpdate(f, o, n)

SpecUpd == InitMgr /\ [][NextUpd]_vars

\* Add and Delete report success only when every response verified
AddDeleteAreStrict ==
    (resp.op \in {"add", "delete"} /\ resp.st = "ok" /\ resp.success) =>
        resp.verified

\* C40: Manager.Update returns success = true only if every StoragerDelete
\* response for the old keywords and every StoragerAdd response for the new
\* keywords passed proof verification, as Manager.Add and Manager.Delete do.
C40_UpdateReportsPartialFailure ==
    (resp.op = "update" /\ resp.st = "ok" /\ resp.success) => resp.verified

=============================================================================
